---- MODULE Spec2Model ----
(***************************************************************************)
(* Multi-source location correction engine (location_correction).          *)
(*                                                                         *)
(* Spec          the location service as a set of threads: the controller  *)
(*               (initialize/start/stop), the collector threads calling    *)
(*               onLocationDataReceived, the consumer thread running       *)
(*               processingLoop, and, in the high-performance service, the *)
(*               detached batch threads running processBatchData.          *)
(* SpecPipeline  processLocationData as one sequential handler over a wall *)
(*               clock: processor chain, adaptive corrector, publication.  *)
(***************************************************************************)
EXTENDS Integers, Sequences, FiniteSets, TLC

\* ------------------------------------------------------------------------
\* Bounds of the model
\* ------------------------------------------------------------------------
MaxPushes == 4
MaxQueueSize == 2
MaxWorkers == 2
MaxFixes == 6
MaxTicks == 1
StartTime == 1000000
MaxBatchSize == 2
MaxDetections == 4
MaxPriority == 1
MaxSources == 2
MaxCapacity == 2
MaxStores == 4
MaxExtras == 2
MaxLines == 1
MaxDetectors == 2
\* storage objects handed to the StorageManager
MaxStorages == 2
\* calls of the corrector on its own
MaxCorrections == 3

\* ------------------------------------------------------------------------
\* Program constants
\* ------------------------------------------------------------------------
minCorrectionInterval == 500
sceneCheckInterval == 10000
maxTimeDiff == 300000
minAccuracy == 0
maxAccuracy == 100
thresholdFactor == 2
maxHistorySize == 50
minSampleSize == 5
indoorMinAccuracy == 10
sceneSpeedThreshold == 10
sceneAccuracyThreshold == 10
cacheSize == 100
zScoreThreshold == 2
historySize == 50
detectorMinSampleSize == 5
minRequiredSources == 2
coherenceThreshold == 700
maxFootprintRadius == 50
defaultStorageCapacity == 10000
defaultThreshold == 0
minRequiredDetectors == 2
\* calculateDistance along a meridian: R * pi / 180 metres per degree,
\* R = 6371000
MetresPerDegree == 111195
\* the batch sizes the model configures the high-performance service with
\* (config.batchProcessingSize > 0 overrides the default of 10)
BatchSizes == 1..MaxBatchSize

VARIABLES
    \* ---- service (LocationService.cpp) ----
    serviceType,      \* "BASIC" | "HIGH_PERFORMANCE" (LocationServiceFactory)
    maxQueueSize,     \* config_.maxQueueSize
    batchProcessingSize, \* batchProcessingSize_
    isRunning,        \* isRunning_
    ctl,              \* controller thread: "idle" | "stopJoin" (inside stop(), joining)
                      \* | "terminated" (std::terminate ended the process)
    sourcesOn,        \* the data sources' collection threads are running
    queue,            \* locationDataQueue_
    queueMutex,       \* owner of queueMutex_
    locationMutex,    \* owner of locationMutex_
    listenerMutex,    \* owner of listenerMutex_
    cpc,              \* consumer thread position
    cur,              \* the consumer's local `location`
    ppc,              \* collector thread position, per source
    lastLocation,     \* lastLocation_ (id of the fix, 0 = nullptr)
    listenerSet,      \* locationUpdateListener_ is non-empty
    batchQueue,       \* batchLocationQueue_
    locationCache,    \* locationCache_ (ids of the cached locations)
    workers,          \* detached batch threads
    nextId,           \* arrival number of the next pushed fix
    \* ---- history of the run (observations, not program state) ----
    processed,        \* ids handed to processLocationData, in order
    delivered,        \* ids delivered to the listener, in order
    removed           \* fixes taken off the queue by the consumer or by stop()

svcVars == <<serviceType, maxQueueSize, batchProcessingSize, isRunning, ctl,
             sourcesOn, queue, queueMutex, locationMutex, listenerMutex, cpc,
             cur, ppc, lastLocation, listenerSet, batchQueue, locationCache,
             workers, nextId, processed, delivered, removed>>

VARIABLES
    \* ---- wall clock ----
    now,              \* system_clock::now() in ms since the epoch
    ticks,            \* clock advances so far
    \* ---- OutlierDetectionProcessor ----
    history,          \* history (deque of accepted fixes)
    processedLocation, \* the fix ProcessorChain::process returned last
    failedStage,      \* the stage whose doProcess failed in that run (0 = none)
    \* ---- AdaptiveLocationCorrector ----
    currentScene,     \* currentScene_
    lastSceneCheckTime, \* lastSceneCheckTime_
    lastCorrectionTime, \* lastCorrectionTime_
    \* ---- publication by processLocationData ----
    plLastLocation,   \* lastLocation_ as handed to the listener
    \* ---- history of the run (observations, not program state) ----
    fed,              \* fixes handed to processLocationData so far
    fedSources,       \* sources of the fixes that left the chain Valid
    emitCount,        \* emissions so far
    prevEmitTime      \* wall time of the emission before the last one

plVars == <<now, ticks, history, processedLocation, failedStage, currentScene, lastSceneCheckTime,
            lastCorrectionTime, plLastLocation, fed, fedSources, emitCount,
            prevEmitTime>>

VARIABLES
    \* ---- StatisticalAnomalyDetector ----
    statHistory,      \* history (deque of the fixes the detector kept)
    anomalyResult,    \* AnomalyResult::isAnomaly of the last detectAnomaly
    confidence,       \* AnomalyResult::confidence of that call, in tenths
    detections        \* calls of the detector so far

adVars == <<statHistory, anomalyResult, confidence, detections>>

VARIABLES
    \* ---- ProcessorChain and its stages' priorities ----
    processors,       \* processors (the stages in the chain, in order)
    priority,         \* priority of each stage object
    lastOp            \* the operation on the chain that ran last

pcVars == <<processors, priority, lastOp>>

VARIABLES
    \* ---- DataFusion ----
    engine,           \* the fusion engine fuse was called on (its settings)
    locations,        \* the argument of fuse
    selectedIndices,  \* FootprintCoherenceFusion::doFuse's selectedIndices
    fusedLocation     \* what fuse returned (NoFused = nullptr)

fuVars == <<engine, locations, selectedIndices, fusedLocation>>

VARIABLES
    \* ---- MemoryStorage ----
    initialized,      \* DataStorage::initialized
    enabled,          \* DataStorage::enabled
    storageCapacity,  \* DataStorage::storageCapacity
    memLocations,     \* MemoryStorage::locations (oldest first)
    stOp,             \* the last call on the store that changed it
    stCalls,          \* locations handed to store and batchStore so far
    \* ---- FileStorage::serializeLocation / deserializeLocation ----
    fileLocation,     \* the location serialised (NoLine before the call)
    data,             \* the line serializeLocation returned, as characters
    parsed,           \* the location deserializeLocation returned
    \* ---- FileStorage::queryByTimeRange ----
    fileLines,        \* the lines of the log file the query read
    queryResult,      \* the locations the query returned
    queryErrors       \* the lines whose parse threw (logged and skipped)

stVars == <<initialized, enabled, storageCapacity, memLocations, stOp, stCalls,
            fileLocation, data, parsed, fileLines, queryResult, queryErrors>>

VARIABLES
    \* ---- LocationInfo and CorrectedLocation (LocationModel.cpp) ----
    lmLocation,       \* the LocationInfo a method was called on
    lmValid,          \* what isValid returned
    lmCorrected,      \* the CorrectedLocation converted
    lmInfo,           \* what getCorrectedLocationInfo returned
    lmCopy            \* a LocationInfo copy-constructed, then assigned to

lmVars == <<lmLocation, lmValid, lmCorrected, lmInfo, lmCopy>>

VARIABLES
    \* ---- MultiDetectorAnomalyDetector ----
    composite,        \* the composite detector detectAnomaly was called on
    compositeResult   \* the AnomalyResult it returned

mdVars == <<composite, compositeResult>>

VARIABLES
    \* ---- DataSource threads and the controller inside stopAllDataSources ----
    dataCollecting,   \* dataCollecting, per source
    sourceMutex,      \* owner of DataSource::mutex, per source
    tpc,              \* dataCollectionThread position, per source
    dsJoining,        \* the source whose stop() the controller is inside
    dsStopped         \* the sources whose stop() has returned in this pass

dsVars == <<dataCollecting, sourceMutex, tpc, dsJoining, dsStopped>>

VARIABLES
    \* ---- MultiModeLocationCorrector ----
    mmConfig,         \* *config_
    currentMode,      \* currentMode_
    mmLastCorrectionTime, \* lastCorrectionTime_
    mmBefore,         \* *config_ when the last correctLocation was entered
    mmEffective,      \* minCorrectionInterval the last call compared with
    mmResult          \* "none" | "null" | "corrected": what the last call returned

mmVars == <<mmConfig, currentMode, mmLastCorrectionTime, mmBefore, mmEffective,
            mmResult>>

VARIABLES
    \* ---- StorageManager ----
    namedStorages,    \* namedStorages: name -> storage
    defaultStorage,   \* defaultStorage (0 = nullptr)
    smCall            \* the last call: [op, name, storage, result]

smVars == <<namedStorages, defaultStorage, smCall>>

VARIABLES
    \* ---- CoordinateConverterProcessor on its own ----
    converter,        \* [sourceSystem, targetSystem] of the stage
    ccInput,          \* the fix handed to process
    ccOutput          \* the fix after process

ccVars == <<converter, ccInput, ccOutput>>

vars == <<svcVars, plVars, adVars, pcVars, fuVars, stVars, lmVars, mdVars,
               dsVars, mmVars, smVars, ccVars>>

\* what the actions of one component leave alone: the other components
nonSvcVars == <<plVars, adVars, pcVars, fuVars, stVars, lmVars, mdVars,
               dsVars, mmVars, smVars, ccVars>>
nonPlVars == <<svcVars, adVars, pcVars, fuVars, stVars, lmVars, mdVars,
               dsVars, mmVars, smVars, ccVars>>
nonAdVars == <<svcVars, plVars, pcVars, fuVars, stVars, lmVars, mdVars,
               dsVars, mmVars, smVars, ccVars>>
nonPcVars == <<svcVars, plVars, adVars, fuVars, stVars, lmVars, mdVars,
               dsVars, mmVars, smVars, ccVars>>
nonFuVars == <<svcVars, plVars, adVars, pcVars, stVars, lmVars, mdVars,
               dsVars, mmVars, smVars, ccVars>>
nonStVars == <<svcVars, plVars, adVars, pcVars, fuVars, lmVars, mdVars,
               dsVars, mmVars, smVars, ccVars>>
nonLmVars == <<svcVars, plVars, adVars, pcVars, fuVars, stVars, mdVars,
               dsVars, mmVars, smVars, ccVars>>
nonMdVars == <<svcVars, plVars, adVars, pcVars, fuVars, stVars, lmVars,
               dsVars, mmVars, smVars, ccVars>>
nonDsVars == <<svcVars, plVars, adVars, pcVars, fuVars, stVars, lmVars,
               mdVars, mmVars, smVars, ccVars>>
nonMmVars == <<svcVars, plVars, adVars, pcVars, fuVars, stVars, lmVars,
               mdVars, dsVars, smVars, ccVars>>
nonSmVars == <<svcVars, plVars, adVars, pcVars, fuVars, stVars, lmVars,
               mdVars, dsVars, mmVars, ccVars>>
nonCcVars == <<svcVars, plVars, adVars, pcVars, fuVars, stVars, lmVars,
               mdVars, dsVars, mmVars, smVars>>
\* what the service's threads and the data sources' threads leave alone
nonSvcDsVars == <<plVars, adVars, pcVars, fuVars, stVars, lmVars, mdVars,
                 mmVars, smVars, ccVars>>

\* ------------------------------------------------------------------------
\* Threads and fixes
\* ------------------------------------------------------------------------
Sources == {"GPS", "WIFI"}

NoThread == [kind |-> "none", n |-> 0]
Consumer == [kind |-> "consumer", n |-> 0]
Worker(w) == [kind |-> "worker", n |-> w]

NoFix == [id |-> 0, src |-> "NONE"]
Fix(i, s) == [id |-> i, src |-> s]

WorkerIds == 1..MaxWorkers
FreeWorker == [pc |-> "free", batch |-> <<>>, idx |-> 0]

\* ------------------------------------------------------------------------
\* The ingest queue (locationDataQueue_)
\* ------------------------------------------------------------------------
\* a bounded push that rejects the new fix when the queue is full
EnqueueDropNewest(q, f, cap) ==
    IF Len(q) + 1 > cap THEN q ELSE Append(q, f)

\* BaseLocationService::onLocationDataReceived: push_back, then pop_front
\* when the size exceeds config_.maxQueueSize
Enqueue(q, f, cap) ==
    LET q1 == Append(q, f)
    IN  IF Len(q1) > cap THEN Tail(q1) ELSE q1

\* the drop counter onLocationDataReceived records: the eviction branch
\* (pop_front) updates no counter and the service has no such member
dropCounter == 0

\* HighPerformanceLocationService::updateLocationCache: push_back, then
\* erase from the front while the cache exceeds cacheSize_
UpdateLocationCache(c, x) ==
    LET c1 == Append(c, x)
    IN  IF Len(c1) > cacheSize
        THEN SubSeq(c1, Len(c1) - cacheSize + 1, Len(c1))
        ELSE c1

\* HighPerformanceLocationService::getCurrentLocation: the back of the
\* cache, else the base method's lastLocation_
GetCurrentLocation ==
    IF locationCache # <<>> THEN locationCache[Len(locationCache)]
    ELSE lastLocation

\* a dequeue that takes the newest fix
DequeueBack(q) == <<q[Len(q)], SubSeq(q, 1, Len(q) - 1)>>

\* processingLoop's dequeue: front(), pop_front()
Dequeue(q) == <<Head(q), Tail(q)>>

\* ------------------------------------------------------------------------
\* Fixes of the pipeline.  Coordinates are in millidegrees, accuracy in
\* metres, speed in the corrector's unit, times in ms.
\* ------------------------------------------------------------------------
Abs(x) == IF x < 0 THEN -x ELSE x

RECURSIVE SumSeq(_)
SumSeq(q) == IF q = <<>> THEN 0 ELSE Head(q) + SumSeq(Tail(q))

Latitudes == {39904, 39954}
Longitude == 116407
Accuracies == {5}
Speeds == {0, -1}
Ages == {0, 400000}
\* ages of the fixes handed to the chain alone: fresh, late but inside
\* maxTimeDiff, stale
ChainAges == {0, 200, 400000}
TickSteps == {100, 10000}

\* a fix as a collector creates it (status VALID, no extras)
RawFix(lat, acc, spd, ts, s) ==
    [latitude |-> lat, longitude |-> Longitude, accuracy |-> acc,
     speed |-> spd, timestamp |-> ts, src |-> s, status |-> "VALID",
     isOutlier |-> FALSE, coordSys |-> ""]

\* LocationInfo::isValid
IsValid(f) ==
    /\ f.status = "VALID"
    /\ f.latitude >= -90000 /\ f.latitude <= 90000
    /\ f.longitude >= -180000 /\ f.longitude <= 180000
    /\ f.accuracy >= 0
    /\ f.timestamp > 0

\* AccuracyFilterProcessor::doProcess
AccuracyFilter(f) ==
    IF f.accuracy < minAccuracy \/ f.accuracy > maxAccuracy
    THEN [f EXCEPT !.status = "LOW_ACCURACY"]
    ELSE f

\* TimeFilterProcessor::doProcess at wall time t
TimeFilter(f, t) ==
    IF t - f.timestamp > maxTimeDiff
    THEN [f EXCEPT !.status = "INVALID"]
    ELSE f

\* OutlierDetectionProcessor::calculateStatistics and the threshold test of
\* doProcess, in integers.  With n = |history| and S the sum of latitudes,
\* the distance of x from the centroid is D(x)/n units, D(x) = |n*x - S|
\* (all fixes lie on one meridian, where calculateDistance is linear in the
\* latitude difference).  The sample variance of the history's distances is
\* sumE2 / (n^4 * (n-1)), E_i = n*D_i - Sum(D).
HistLat(h) == [i \in 1..Len(h) |-> h[i].latitude]

\* distance > thresholdFactor * stdDev; a stdDev below 0.0001 m (here: a
\* zero variance) is replaced by 1 m
IsOutlier(h, x) ==
    LET n == Len(h)
        S == SumSeq(HistLat(h))
        d == [i \in 1..n |-> Abs(n * h[i].latitude - S)]
        t == SumSeq(d)
        sumE2 == SumSeq([i \in 1..n |-> (n * d[i] - t) * (n * d[i] - t)])
        D == Abs(n * x - S)
    IN  IF sumE2 = 0
        THEN D * MetresPerDegree > thresholdFactor * 1000 * n
        ELSE D * D * n * n * (n - 1) > thresholdFactor * thresholdFactor * sumE2

\* OutlierDetectionProcessor::trimHistory
TrimHistory(h) ==
    IF Len(h) > maxHistorySize
    THEN SubSeq(h, Len(h) - maxHistorySize + 1, Len(h))
    ELSE h

\* a history entry: of the stored fix, the fields the processor reads back
HistoryEntry(f) ==
    [latitude |-> f.latitude, status |-> f.status, timestamp |-> f.timestamp]

\* an outlier stage that records the fixes it marks as well
OutlierDetectionKeepAll(f, h) ==
    IF ~IsValid(f) THEN <<f, h>>
    ELSE IF Len(h) < minSampleSize THEN <<f, Append(h, HistoryEntry(f))>>
    ELSE IF IsOutlier(h, f.latitude)
         THEN LET g == [f EXCEPT !.status = "ANOMALY", !.isOutlier = TRUE]
              IN  <<g, TrimHistory(Append(h, HistoryEntry(g)))>>
         ELSE <<f, TrimHistory(Append(h, HistoryEntry(f)))>>

\* OutlierDetectionProcessor::doProcess: <<fix', history'>>
OutlierDetection(f, h) ==
    IF ~IsValid(f) THEN <<f, h>>
    ELSE IF Len(h) < minSampleSize THEN <<f, Append(h, HistoryEntry(f))>>
    ELSE IF IsOutlier(h, f.latitude)
         THEN <<[f EXCEPT !.status = "ANOMALY", !.isOutlier = TRUE], h>>
         ELSE <<f, TrimHistory(Append(h, HistoryEntry(f)))>>

\* isInsideChina(lat, lon): 0.8293 <= lat <= 55.8271 and
\* 73.4976 <= lon <= 135.0841, on whole millidegrees
IsInsideChina(lat, lon) ==
    lat >= 830 /\ lat <= 55827 /\ lon >= 73498 /\ lon <= 135084

\* wgs84ToGcj02: a copy of the fix, shifted when it lies inside the region
\* of isInsideChina (at the model's positions the offset is 0.0014 deg in
\* latitude and 0.0062 deg in longitude, rounded to the millidegree)
Wgs84ToGcj02(f) ==
    IF ~IsInsideChina(f.latitude, f.longitude) THEN f
    ELSE [f EXCEPT !.latitude = f.latitude + 1, !.longitude = f.longitude + 6]

\* gcj02ToWgs84: the same offset taken off
Gcj02ToWgs84(f) ==
    IF ~IsInsideChina(f.latitude, f.longitude) THEN f
    ELSE [f EXCEPT !.latitude = f.latitude - 1, !.longitude = f.longitude - 6]

\* CoordinateConverterProcessor::doProcess of a converter c =
\* [sourceSystem, targetSystem]
ConverterDoProcess(c, f) ==
    IF c.sourceSystem = c.targetSystem THEN f
    ELSE IF c.sourceSystem = "WGS84" /\ c.targetSystem = "GCJ02"
    THEN [Wgs84ToGcj02(f) EXCEPT !.coordSys = "GCJ02"]
    ELSE IF c.sourceSystem = "GCJ02" /\ c.targetSystem = "WGS84"
    THEN [Gcj02ToWgs84(f) EXCEPT !.coordSys = "WGS84"]
    ELSE f

\* CoordinateConverterProcessor::doProcess with the constructor's systems
\* (WGS84 -> GCJ02)
CoordinateConverter(f) ==
    [Wgs84ToGcj02(f) EXCEPT !.coordSys = "GCJ02"]

\* ProcessorChain::process with the service's four stages (accuracy, time,
\* outlier, coordinates); the chain never returns null
ChainProcess(f, t, h) ==
    LET f1 == AccuracyFilter(f)
        f2 == TimeFilter(f1, t)
        r3 == OutlierDetection(f2, h)
    IN  <<CoordinateConverter(r3[1]), r3[2]>>

\* the stages in the order initializeProcessorChain adds them
Stages == 1..4

\* ProcessorChain::process when stage k fails: BaseDataProcessor::process
\* catches the exception (or sees doProcess return false), returns a copy of
\* the fix it was given, and the chain goes on with that fix
ChainProcessFailing(f, t, h, k) ==
    LET f1 == IF k = 1 THEN f ELSE AccuracyFilter(f)
        f2 == IF k = 2 THEN f1 ELSE TimeFilter(f1, t)
        r3 == IF k = 3 THEN <<f2, h>> ELSE OutlierDetection(f2, h)
        f4 == IF k = 4 THEN r3[1] ELSE CoordinateConverter(r3[1])
    IN  <<f4, r3[2]>>

\* the scenes initializeLocationCorrector configures
SceneConfigs == {"OUTDOOR", "INDOOR"}

\* detectScene without the interval test: every call evaluates the scene
DetectSceneEveryCall(f, t, scene, check) ==
    LET d == IF f.speed > sceneSpeedThreshold THEN "OUTDOOR"
             ELSE IF f.speed >= 0
                  THEN IF f.src = "GPS" /\ f.accuracy < sceneAccuracyThreshold
                       THEN "OUTDOOR" ELSE "INDOOR"
                  ELSE scene
    IN  [scene |-> d, current |-> d, check |-> t]

\* AdaptiveLocationCorrector::detectScene at wall time t:
\* [scene (returned), current (currentScene_), check (lastSceneCheckTime_)]
DetectScene(f, t, scene, check) ==
    IF t - check < sceneCheckInterval
    THEN [scene |-> scene, current |-> scene, check |-> check]
    ELSE LET d == IF f.speed > sceneSpeedThreshold THEN "OUTDOOR"
                  ELSE IF f.speed >= 0
                       THEN IF f.src = "GPS" /\ f.accuracy < sceneAccuracyThreshold
                            THEN "OUTDOOR" ELSE "INDOOR"
                       ELSE scene
         IN  [scene |-> d, current |-> d, check |-> t]

NoLocation ==
    [originalStatus |-> "NONE", time |-> 0, timestamp |-> 0, src |-> "NONE",
     latitude |-> 0, longitude |-> 0, accuracy |-> 0]

\* the CorrectedLocation a corrector returns: originalLocation's status,
\* correctionTime (time) and the fields copied from the fix
Corrected(f, acc, t) ==
    [originalStatus |-> f.status, time |-> t, timestamp |-> f.timestamp,
     src |-> f.src, latitude |-> f.latitude, longitude |-> f.longitude,
     accuracy |-> acc]

\* BaseLocationCorrector::correctLocation at wall time t:
\* [out (NoLocation = nullptr), last (lastCorrectionTime_)]
BaseCorrectLocation(f, t, last, interval) ==
    IF t - last < interval
    THEN [out |-> NoLocation, last |-> last]
    ELSE [out |-> Corrected(f, f.accuracy, t), last |-> t]

\* applyIndoorCorrection / applyOutdoorCorrection: the published accuracy
SceneAccuracy(f, scene) ==
    IF scene = "INDOOR" /\ f.src = "GPS" /\ f.accuracy < indoorMinAccuracy
    THEN indoorMinAccuracy
    ELSE f.accuracy

\* AdaptiveLocationCorrector::correctLocation at wall time t:
\* [out, last, current, check].  Only the fallback to the base corrector
\* compares t with lastCorrectionTime_; the configured-scene path does not.
AdaptiveCorrectLocation(f, t, last, scene, check) ==
    LET ds == DetectScene(f, t, scene, check)
    IN  IF ds.scene \notin SceneConfigs
        THEN LET b == BaseCorrectLocation(f, t, last, minCorrectionInterval)
             IN  [out |-> b.out, last |-> b.last,
                  current |-> ds.current, check |-> ds.check]
        ELSE [out |-> Corrected(f, SceneAccuracy(f, ds.scene), t), last |-> t,
              current |-> ds.current, check |-> ds.check]

\* ------------------------------------------------------------------------
\* Init: the service after construction and one initialize(config)
\* ------------------------------------------------------------------------
SvcInit ==
    /\ serviceType \in {"BASIC", "HIGH_PERFORMANCE"}
    /\ maxQueueSize \in 1..MaxQueueSize
    /\ batchProcessingSize \in BatchSizes
    /\ isRunning = FALSE
    /\ ctl = "idle"
    /\ sourcesOn = FALSE
    /\ queue = <<>>
    /\ queueMutex = NoThread
    /\ locationMutex = NoThread
    /\ listenerMutex = NoThread
    /\ cpc = "none"
    /\ cur = NoFix
    /\ ppc = [s \in Sources |-> "idle"]
    /\ lastLocation = 0
    /\ listenerSet \in BOOLEAN
    /\ batchQueue = <<>>
    /\ locationCache = <<>>
    /\ workers = [w \in WorkerIds |-> FreeWorker]
    /\ nextId = 1
    /\ processed = <<>>
    /\ delivered = <<>>
    /\ removed = 0

\* the chain, the corrector and the clock after construction
PlInit ==
    /\ now = StartTime
    /\ ticks = 0
    /\ history = <<>>
    /\ processedLocation = NoFix
    /\ failedStage = 0
    /\ currentScene = "UNKNOWN"
    /\ lastSceneCheckTime = 0
    /\ lastCorrectionTime = 0
    /\ plLastLocation = NoLocation
    /\ fed = 0
    /\ fedSources = {}
    /\ emitCount = 0
    /\ prevEmitTime = 0

\* the service threads run with the largest batch size
\* StatisticalAnomalyDetector(): empty history, nothing detected yet
AdInit ==
    /\ statHistory = <<>>
    /\ anomalyResult = FALSE
    /\ confidence = 0
    /\ detections = 0

\* ProcessorChain(): no stage yet; DataProcessor(): priority 0
PcInit ==
    /\ processors = <<>>
    /\ priority = [k \in Stages |-> 0]
    /\ lastOp = "none"

NoEngine == [kind |-> "NONE"]
NoFused == [src |-> "NONE"]

\* no fusion engine built, fuse not called
FuInit ==
    /\ engine = NoEngine
    /\ locations = <<>>
    /\ selectedIndices = <<>>
    /\ fusedLocation = NoFused

\* no location serialised or parsed yet
NoLine == [src |-> "NONE"]

\* DataStorage(), MemoryStorage(): not initialized, enabled, the default
\* capacity, nothing stored; no line serialised yet
StInit ==
    /\ initialized = FALSE
    /\ enabled = TRUE
    /\ storageCapacity = defaultStorageCapacity
    /\ memLocations = <<>>
    /\ stOp = "none"
    /\ stCalls = 0
    /\ fileLocation = NoLine
    /\ data = <<>>
    /\ parsed = NoLine
    /\ fileLines = <<>>
    /\ queryResult = <<>>
    /\ queryErrors = {}

\* the components beside the service and its pipeline, as constructed
\* no LocationInfo examined, no CorrectedLocation converted yet
LmInit ==
    /\ lmLocation = NoLine
    /\ lmValid = FALSE
    /\ lmCorrected = NoLine
    /\ lmInfo = NoLine
    /\ lmCopy = NoLine

NoComposite == [strategy |-> "NONE"]

\* AnomalyResult with isAnomaly = false, confidence = 0.0 (a confidence is
\* the fraction num / den of tenths)
NotAnomaly == [isAnomaly |-> FALSE, num |-> 0, den |-> 1]

\* no composite detector built, detectAnomaly not called
MdInit ==
    /\ composite = NoComposite
    /\ compositeResult = NotAnomaly

\* no collection thread, nobody inside a DataSource
DsInit ==
    /\ dataCollecting = [s \in Sources |-> FALSE]
    /\ sourceMutex = [s \in Sources |-> "none"]
    /\ tpc = [s \in Sources |-> "none"]
    /\ dsJoining = "NONE"
    /\ dsStopped = {}

\* the default-constructed CorrectionConfig, before initialize(config)
NoConfig == [enableAnomalyDetection |-> FALSE, minCorrectionInterval |-> -1]

\* MultiModeLocationCorrector(): mode NORMAL, lastCorrectionTime_ 0
MmInit ==
    /\ mmConfig = NoConfig
    /\ currentMode = "NORMAL"
    /\ mmLastCorrectionTime = 0
    /\ mmBefore = NoConfig
    /\ mmEffective = 0
    /\ mmResult = "none"

NoCall == [op |-> "none", name |-> "", storage |-> 0, result |-> FALSE]

\* StorageManager(): defaultStorage(nullptr), namedStorages()
SmInit ==
    /\ namedStorages = <<>>
    /\ defaultStorage = 0
    /\ smCall = NoCall

\* CoordinateConverterProcessor(): WGS84 -> GCJ02; nothing processed yet
CcInit ==
    /\ converter = [sourceSystem |-> "WGS84", targetSystem |-> "GCJ02"]
    /\ ccInput = NoLine
    /\ ccOutput = NoLine

CompInit ==
    /\ AdInit /\ PcInit /\ FuInit /\ StInit /\ LmInit /\ MdInit
    /\ DsInit /\ MmInit /\ SmInit /\ CcInit

Init == SvcInit /\ batchProcessingSize = MaxBatchSize /\ PlInit /\ CompInit

\* ------------------------------------------------------------------------
\* Controller: initialize / start / stop  (all under mutex_)
\* ------------------------------------------------------------------------
\* initialize(config): refused while running, else config_ = config.
\* HighPerformanceLocationService::initialize first assigns
\* batchProcessingSize_ from the config, then calls the base method.
Initialize(cap, bs) ==
    /\ ctl = "idle"
    /\ batchProcessingSize' = IF serviceType = "HIGH_PERFORMANCE"
                              THEN bs ELSE batchProcessingSize
    /\ maxQueueSize' = IF isRunning THEN maxQueueSize ELSE cap
    /\ UNCHANGED locationCache
    /\ UNCHANGED <<serviceType, isRunning, ctl, sourcesOn,
                   queue, queueMutex, locationMutex, listenerMutex, cpc, cur,
                   ppc, lastLocation, listenerSet, batchQueue, workers, nextId,
                   processed, delivered, removed>>
    /\ UNCHANGED nonSvcVars

\* start(): no-op when running; else startAllDataSources, isRunning_ = true,
\* processingThread_ = thread(processingLoop)
Start ==
    /\ ctl = "idle"
    /\ IF isRunning
       THEN UNCHANGED <<isRunning, sourcesOn, cpc>>
       ELSE /\ sourcesOn' = TRUE
            /\ isRunning' = TRUE
            /\ cpc' = "top"
    /\ UNCHANGED locationCache
    /\ UNCHANGED <<serviceType, maxQueueSize, batchProcessingSize, ctl, queue,
                   queueMutex, locationMutex, listenerMutex, cur, ppc,
                   lastLocation, listenerSet, batchQueue, workers, nextId,
                   processed, delivered, removed>>
    /\ UNCHANGED nonSvcVars

\* stop(), first part: no-op when not running; else isRunning_ = false and
\* wait in processingThread_.join()
StopBegin ==
    /\ ctl = "idle"
    /\ IF isRunning
       THEN /\ isRunning' = FALSE
            /\ ctl' = "stopJoin"
       ELSE UNCHANGED <<isRunning, ctl>>
    /\ UNCHANGED locationCache
    /\ UNCHANGED <<serviceType, maxQueueSize, batchProcessingSize, sourcesOn,
                   queue, queueMutex, locationMutex, listenerMutex, cpc, cur,
                   ppc, lastLocation, listenerSet, batchQueue, workers, nextId,
                   processed, delivered, removed>>
    /\ UNCHANGED nonSvcVars

\* stop(), second part: the join returned; stopAllDataSources() joins every
\* collection thread; then locationDataQueue_.clear() under queueMutex_
StopFinish ==
    /\ ctl = "stopJoin"
    /\ cpc = "exited"
    /\ \A s \in Sources : ppc[s] = "idle"
    /\ queueMutex = NoThread
    /\ sourcesOn' = FALSE
    /\ queue' = <<>>
    /\ removed' = removed + Len(queue)
    /\ cpc' = "none"
    /\ ctl' = "idle"
    /\ UNCHANGED locationCache
    /\ UNCHANGED <<serviceType, maxQueueSize, batchProcessingSize, isRunning,
                   queueMutex, locationMutex, listenerMutex, cur, ppc,
                   lastLocation, listenerSet, batchQueue, workers, nextId,
                   processed, delivered>>
    /\ UNCHANGED nonSvcVars

\* setLocationUpdateListener(listener) under listenerMutex_
SetLocationUpdateListener(b) ==
    /\ listenerMutex = NoThread
    /\ listenerSet' = b
    /\ UNCHANGED locationCache
    /\ UNCHANGED <<serviceType, maxQueueSize, batchProcessingSize, isRunning,
                   ctl, sourcesOn, queue, queueMutex, locationMutex,
                   listenerMutex, cpc, cur, ppc, lastLocation, batchQueue,
                   workers, nextId, processed, delivered, removed>>
    /\ UNCHANGED nonSvcVars

\* ------------------------------------------------------------------------
\* Collector threads (DataSource::dataCollectionTask -> onLocationDataReceived)
\* ------------------------------------------------------------------------
\* the collector calls onLocationDataReceived and reaches its lock_guard
CollectorCall(s) ==
    /\ sourcesOn
    /\ ppc[s] = "idle"
    /\ nextId <= MaxPushes
    /\ ppc' = [ppc EXCEPT ![s] = "calling"]
    /\ UNCHANGED locationCache
    /\ UNCHANGED <<serviceType, maxQueueSize, batchProcessingSize, isRunning,
                   ctl, sourcesOn, queue, queueMutex, locationMutex,
                   listenerMutex, cpc, cur, lastLocation, listenerSet,
                   batchQueue, workers, nextId, processed, delivered, removed>>
    /\ UNCHANGED nonSvcVars

\* BaseLocationService::onLocationDataReceived, once queueMutex_ is free
OnLocationDataReceived(s) ==
    /\ serviceType = "BASIC"
    /\ ppc[s] = "calling"
    /\ queueMutex = NoThread
    /\ queue' = Enqueue(queue, Fix(nextId, s), maxQueueSize)
    /\ nextId' = nextId + 1
    /\ ppc' = [ppc EXCEPT ![s] = "idle"]
    /\ UNCHANGED locationCache
    /\ UNCHANGED <<serviceType, maxQueueSize, batchProcessingSize, isRunning,
                   ctl, sourcesOn, queueMutex, locationMutex, listenerMutex,
                   cpc, cur, lastLocation, listenerSet, batchQueue, workers,
                   processed, delivered, removed>>
    /\ UNCHANGED nonSvcVars

\* HighPerformanceLocationService::onLocationDataReceived under batchMutex_:
\* push_back; at batchProcessingSize_ swap the buffer out and detach a
\* thread running processBatchData on it
HPOnLocationDataReceived(s) ==
    /\ serviceType = "HIGH_PERFORMANCE"
    /\ ppc[s] = "calling"
    /\ LET b1 == Append(batchQueue, Fix(nextId, s))
       IN  IF Len(b1) >= batchProcessingSize
           THEN /\ \E w \in WorkerIds : workers[w].pc = "free"
                /\ LET w == CHOOSE x \in WorkerIds :
                              /\ workers[x].pc = "free"
                              /\ \A y \in WorkerIds :
                                    workers[y].pc = "free" => x <= y
                   IN  workers' = [workers EXCEPT
                                     ![w] = [pc |-> "chain", batch |-> b1, idx |-> 1]]
                /\ batchQueue' = <<>>
           ELSE /\ batchQueue' = b1
                /\ UNCHANGED workers
    /\ nextId' = nextId + 1
    /\ ppc' = [ppc EXCEPT ![s] = "idle"]
    /\ UNCHANGED locationCache
    /\ UNCHANGED <<serviceType, maxQueueSize, batchProcessingSize, isRunning,
                   ctl, sourcesOn, queue, queueMutex, locationMutex,
                   listenerMutex, cpc, cur, lastLocation, listenerSet,
                   processed, delivered, removed>>
    /\ UNCHANGED nonSvcVars

\* ------------------------------------------------------------------------
\* Consumer thread: BaseLocationService::processingLoop
\* ------------------------------------------------------------------------
\* while (isRunning_)
ConsumerTop ==
    /\ cpc = "top"
    /\ cpc' = IF isRunning THEN "acquire" ELSE "exited"
    /\ UNCHANGED locationCache
    /\ UNCHANGED <<serviceType, maxQueueSize, batchProcessingSize, isRunning,
                   ctl, sourcesOn, queue, queueMutex, locationMutex,
                   listenerMutex, cur, ppc, lastLocation, listenerSet,
                   batchQueue, workers, nextId, processed, delivered, removed>>
    /\ UNCHANGED nonSvcVars

\* lock_guard queueLock(queueMutex_) in the loop body's scope, then
\* front()/pop_front() when the queue is not empty
ConsumerDequeue ==
    /\ cpc = "acquire"
    /\ queueMutex = NoThread
    /\ queueMutex' = Consumer
    /\ IF queue # <<>>
       THEN /\ cur' = Dequeue(queue)[1]
            /\ queue' = Dequeue(queue)[2]
            /\ processed' = Append(processed, Dequeue(queue)[1].id)
            /\ removed' = removed + 1
            /\ cpc' = "process"
       ELSE /\ cpc' = "sleep"
            /\ UNCHANGED <<cur, queue, processed, removed>>
    /\ UNCHANGED locationCache
    /\ UNCHANGED <<serviceType, maxQueueSize, batchProcessingSize, isRunning,
                   ctl, sourcesOn, locationMutex, listenerMutex, ppc,
                   lastLocation, listenerSet, batchQueue, workers, nextId,
                   delivered>>
    /\ UNCHANGED nonSvcVars

\* processLocationData up to the listener call: chain, corrector, store,
\* lock locationMutex_, lastLocation_ = ..., lock listenerMutex_,
\* if (locationUpdateListener_) locationUpdateListener_(*lastLocation_);
\* without a listener the function returns and releases its two locks
\* (a collector's fix has speed 0, so the adaptive corrector's scene is
\*  INDOOR or OUTDOOR and correctLocation returns a location)
ConsumerProcess ==
    /\ cpc = "process"
    /\ locationMutex = NoThread
    /\ listenerMutex = NoThread
    /\ lastLocation' = cur.id
    /\ IF listenerSet
       THEN /\ locationMutex' = Consumer
            /\ listenerMutex' = Consumer
            /\ delivered' = Append(delivered, cur.id)
            /\ cpc' = "notify"
       ELSE /\ cpc' = "release"
            /\ UNCHANGED <<locationMutex, listenerMutex, delivered>>
    /\ UNCHANGED locationCache
    /\ UNCHANGED <<serviceType, maxQueueSize, batchProcessingSize, isRunning,
                   ctl, sourcesOn, queue, queueMutex, cur, ppc, listenerSet,
                   batchQueue, workers, nextId, processed, removed>>
    /\ UNCHANGED nonSvcVars

\* the listener returns; processLocationData returns and its two
\* lock_guards are released
ConsumerNotify ==
    /\ cpc = "notify"
    /\ locationMutex' = NoThread
    /\ listenerMutex' = NoThread
    /\ cpc' = "release"
    /\ UNCHANGED locationCache
    /\ UNCHANGED <<serviceType, maxQueueSize, batchProcessingSize, isRunning,
                   ctl, sourcesOn, queue, queueMutex, cur, ppc, lastLocation,
                   listenerSet, batchQueue, workers, nextId, processed,
                   delivered, removed>>
    /\ UNCHANGED nonSvcVars

\* end of the loop body (after processLocationData or the 50 ms sleep):
\* queueLock goes out of scope
ConsumerRelease ==
    /\ cpc \in {"release", "sleep"}
    /\ queueMutex' = NoThread
    /\ cur' = NoFix
    /\ cpc' = "top"
    /\ UNCHANGED locationCache
    /\ UNCHANGED <<serviceType, maxQueueSize, batchProcessingSize, isRunning,
                   ctl, sourcesOn, queue, locationMutex, listenerMutex, ppc,
                   lastLocation, listenerSet, batchQueue, workers, nextId,
                   processed, delivered, removed>>
    /\ UNCHANGED nonSvcVars

\* An exception leaves a thread function: std::terminate ends the process.
\* Every thread stops where it is; locks that were held stay held.
Terminate ==
    /\ ctl' = "terminated"
    /\ cpc' = "terminated"
    /\ sourcesOn' = FALSE
    /\ ppc' = [s \in Sources |-> "idle"]
    /\ workers' = [w \in WorkerIds |-> FreeWorker]
    /\ UNCHANGED <<serviceType, maxQueueSize, batchProcessingSize, isRunning,
                   queue, queueMutex, locationMutex, listenerMutex, cur,
                   lastLocation, listenerSet, batchQueue, locationCache,
                   nextId, processed, delivered, removed>>
    /\ UNCHANGED nonSvcVars

\* the listener throws: processLocationData and processingLoop have no
\* handler, the exception leaves the consumer's thread function
ConsumerNotifyThrows ==
    /\ cpc = "notify"
    /\ Terminate

\* ------------------------------------------------------------------------
\* Batch threads: HighPerformanceLocationService::processBatchData
\* ------------------------------------------------------------------------
\* first loop: processorChain_->process on every fix of the batch
WorkerPreprocess(w) ==
    /\ workers[w].pc = "chain"
    /\ workers' = [workers EXCEPT ![w].pc = "correct"]
    /\ UNCHANGED locationCache
    /\ UNCHANGED <<serviceType, maxQueueSize, batchProcessingSize, isRunning,
                   ctl, sourcesOn, queue, queueMutex, locationMutex,
                   listenerMutex, cpc, cur, ppc, lastLocation, listenerSet,
                   batchQueue, nextId, processed, delivered, removed>>
    /\ UNCHANGED nonSvcVars

\* after the current fix of the second loop: the next fix, or the thread ends
WorkerAdvance(r) ==
    IF r.idx + 1 > Len(r.batch)
    THEN FreeWorker
    ELSE [r EXCEPT !.pc = "correct", !.idx = r.idx + 1]

\* second loop, one fix: correctLocation, updateLocationCache, store,
\* lock locationMutex_, lastLocation_ = ..., lock listenerMutex_,
\* if (locationUpdateListener_) locationUpdateListener_(*lastLocation_);
\* without a listener the if-block ends and releases its two locks
WorkerCorrect(w) ==
    /\ workers[w].pc = "correct"
    /\ locationMutex = NoThread
    /\ listenerMutex = NoThread
    /\ lastLocation' = workers[w].batch[workers[w].idx].id
    /\ locationCache' = UpdateLocationCache(locationCache,
                                            workers[w].batch[workers[w].idx].id)
    /\ IF listenerSet
       THEN /\ locationMutex' = Worker(w)
            /\ listenerMutex' = Worker(w)
            /\ delivered' = Append(delivered, workers[w].batch[workers[w].idx].id)
            /\ workers' = [workers EXCEPT ![w].pc = "notify"]
       ELSE /\ workers' = [workers EXCEPT ![w] = WorkerAdvance(workers[w])]
            /\ UNCHANGED <<locationMutex, listenerMutex, delivered>>
    /\ UNCHANGED <<serviceType, maxQueueSize, batchProcessingSize, isRunning,
                   ctl, sourcesOn, queue, queueMutex, cpc, cur, ppc,
                   listenerSet, batchQueue, nextId, processed, removed>>
    /\ UNCHANGED nonSvcVars

\* the listener returns; the if-block ends (both lock_guards released)
WorkerNotify(w) ==
    /\ workers[w].pc = "notify"
    /\ locationMutex' = NoThread
    /\ listenerMutex' = NoThread
    /\ workers' = [workers EXCEPT ![w] = WorkerAdvance(workers[w])]
    /\ UNCHANGED locationCache
    /\ UNCHANGED <<serviceType, maxQueueSize, batchProcessingSize, isRunning,
                   ctl, sourcesOn, queue, queueMutex, cpc, cur, ppc,
                   lastLocation, listenerSet, batchQueue, nextId, processed,
                   delivered, removed>>
    /\ UNCHANGED nonSvcVars

\* the listener throws: processBatchData has no handler, the exception
\* leaves the detached thread's function
WorkerNotifyThrows(w) ==
    /\ workers[w].pc = "notify"
    /\ Terminate

\* ------------------------------------------------------------------------
\* The pipeline as one sequential handler
\* ------------------------------------------------------------------------
\* the wall clock advances
Tick(d) ==
    /\ ticks < MaxTicks
    /\ now' = now + d
    /\ ticks' = ticks + 1
    /\ UNCHANGED <<history, processedLocation, failedStage, currentScene,
                   lastSceneCheckTime, lastCorrectionTime, plLastLocation,
                   fed, fedSources, emitCount, prevEmitTime>>
    /\ UNCHANGED nonPlVars

\* BaseLocationService::processLocationData(f): chain, corrector, then
\* lastLocation_ and the listener call when the corrector returned a location
ProcessLocationData(f) ==
    /\ fed < MaxFixes
    /\ LET c == ChainProcess(f, now, history)
           r == AdaptiveCorrectLocation(c[1], now, lastCorrectionTime,
                                        currentScene, lastSceneCheckTime)
       IN  /\ history' = c[2]
           /\ processedLocation' = c[1]
           /\ failedStage' = 0
           /\ currentScene' = r.current
           /\ lastSceneCheckTime' = r.check
           /\ lastCorrectionTime' = r.last
           /\ fedSources' = IF c[1].status = "VALID"
                            THEN fedSources \cup {f.src} ELSE fedSources
           /\ IF r.out # NoLocation
              THEN /\ plLastLocation' = r.out
                   /\ emitCount' = emitCount + 1
                   /\ prevEmitTime' = plLastLocation.time
              ELSE UNCHANGED <<plLastLocation, emitCount, prevEmitTime>>
    /\ fed' = fed + 1
    /\ UNCHANGED <<now, ticks>>
    /\ UNCHANGED nonPlVars

PlNext ==
    \/ \E d \in TickSteps : Tick(d)
    \/ \E lat \in Latitudes, acc \in Accuracies, spd \in Speeds,
          age \in Ages, s \in Sources :
          ProcessLocationData(RawFix(lat, acc, spd, now - age, s))

\* locationCorrector_->correctLocation(f) at wall time now, on its own
CorrectLocation(f) ==
    /\ fed < MaxCorrections
    /\ LET r == AdaptiveCorrectLocation(f, now, lastCorrectionTime,
                                        currentScene, lastSceneCheckTime)
       IN  /\ processedLocation' = f
           /\ currentScene' = r.current
           /\ lastSceneCheckTime' = r.check
           /\ lastCorrectionTime' = r.last
           /\ IF r.out # NoLocation
              THEN /\ plLastLocation' = r.out
                   /\ emitCount' = emitCount + 1
                   /\ prevEmitTime' = plLastLocation.time
              ELSE UNCHANGED <<plLastLocation, emitCount, prevEmitTime>>
    /\ fed' = fed + 1
    /\ UNCHANGED <<now, ticks, history, failedStage, fedSources>>
    /\ UNCHANGED nonPlVars

\* the fixes handed to the corrector: at rest, moving fast, without a
\* usable speed; accurate and coarse; from both sources
SceneFixes(t) ==
    {RawFix(39904, acc, spd, t, s) :
        acc \in {5, 50}, spd \in {0, 20, -1}, s \in Sources}

SceneNext ==
    \/ \E d \in TickSteps : Tick(d)
    \/ \E f \in SceneFixes(now) : CorrectLocation(f)

\* the pipeline of a BASIC service with a listener, fed one fix at a time
PipelineInit ==
    /\ SvcInit
    /\ serviceType = "BASIC"
    /\ maxQueueSize = 1
    /\ batchProcessingSize = MaxBatchSize
    /\ listenerSet = TRUE
    /\ PlInit
    /\ CompInit

SpecPipeline == PipelineInit /\ [][PlNext]_vars

\* ages of the fixes handed to the corrector's pipeline: captured now, or
\* stamped ahead of the wall clock (a collector whose clock runs fast, or
\* a wall clock set back)
CorrectorAges == {0, -1000}

CorrectorNext ==
    \E lat \in Latitudes, acc \in Accuracies, age \in CorrectorAges,
       s \in Sources :
        ProcessLocationData(RawFix(lat, acc, 0, now - age, s))

\* the pipeline fed, at one instant, fixes whose timestamps may lie ahead
\* of the clock
SpecCorrector == PipelineInit /\ [][CorrectorNext]_vars

\* ------------------------------------------------------------------------
\* The processor chain alone
\* ------------------------------------------------------------------------
\* processorChain_->process(f) at wall time now
ChainStep(f) ==
    /\ fed < MaxFixes
    /\ LET c == ChainProcess(f, now, history)
       IN  /\ history' = c[2]
           /\ processedLocation' = c[1]
    /\ failedStage' = 0
    /\ fed' = fed + 1
    /\ UNCHANGED <<now, ticks, currentScene, lastSceneCheckTime,
                   lastCorrectionTime, plLastLocation, fedSources, emitCount,
                   prevEmitTime>>
    /\ UNCHANGED nonPlVars

\* processorChain_->process(f) when stage k's doProcess throws or returns
\* false
ChainStepFailing(f, k) ==
    /\ fed < MaxFixes
    /\ LET c == ChainProcessFailing(f, now, history, k)
       IN  /\ history' = c[2]
           /\ processedLocation' = c[1]
    /\ failedStage' = k
    /\ fed' = fed + 1
    /\ UNCHANGED <<now, ticks, currentScene, lastSceneCheckTime,
                   lastCorrectionTime, plLastLocation, fedSources, emitCount,
                   prevEmitTime>>
    /\ UNCHANGED nonPlVars

\* the fixes handed to the chain at wall time t
ChainInputs(t) ==
    {RawFix(lat, acc, 0, t - age, s) :
        lat \in Latitudes, acc \in Accuracies, age \in ChainAges, s \in Sources}

\* the chain is fed at one instant: fresh, late and stale fixes differ in
\* their timestamps
ChainNext == \E f \in ChainInputs(now) : ChainStep(f)

SpecChain == PipelineInit /\ [][ChainNext]_vars

\* the chain with failing stages, fed fresh fixes
FreshInputs(t) == {f \in ChainInputs(t) : f.timestamp = t}

ChainFailingNext ==
    \/ \E f \in FreshInputs(now) : ChainStep(f)
    \/ \E f \in FreshInputs(now), k \in Stages : ChainStepFailing(f, k)

SpecChainFailing == PipelineInit /\ [][ChainFailingNext]_vars

\* the adaptive corrector called on its own while the clock advances
SpecScene == PipelineInit /\ [][SceneNext]_vars

\* ------------------------------------------------------------------------
\* The coordinate-transform stage alone
\* ------------------------------------------------------------------------
CoordinateSystems == {"WGS84", "GCJ02"}

\* the fixes handed to the stage: inside the region, on its border, just
\* outside and far outside; with and without a coordinateSystem extra
ConverterInputs ==
    {[RawFix(lat, acc, 0, StartTime, s) EXCEPT !.longitude = lon,
                                              !.coordSys = cs] :
        lat \in {39904, 830, 829, -33869},
        lon \in {116407, 73498, 73497, 151209},
        acc \in {5, 50}, s \in Sources, cs \in {"", "WGS84"}}

\* converter.setConversionParams(src, dest)
SetConversionParams(src, dest) ==
    /\ ccInput = NoLine
    /\ converter' = [sourceSystem |-> src, targetSystem |-> dest]
    /\ UNCHANGED <<ccInput, ccOutput, nonCcVars>>

\* converter.process(f): BaseDataProcessor::process -> doProcess
ConverterProcess(f) ==
    /\ ccInput = NoLine
    /\ ccInput' = f
    /\ ccOutput' = ConverterDoProcess(converter, f)
    /\ UNCHANGED <<converter, nonCcVars>>

ConverterNext ==
    \/ \E src \in CoordinateSystems, dest \in CoordinateSystems :
           SetConversionParams(src, dest)
    \/ /\ ccInput = NoLine
       /\ \E f \in ConverterInputs : ConverterProcess(f)

SpecConverter == PipelineInit /\ [][ConverterNext]_vars

\* ------------------------------------------------------------------------
\* MultiModeLocationCorrector (LocationCorrector.cpp), intervals in ms
\* ------------------------------------------------------------------------
CorrectionModes ==
    {"NORMAL", "HIGH_ACCURACY", "LOW_POWER", "FAST_UPDATE", "OFFLINE"}

Max2(a, b) == IF a >= b THEN a ELSE b

\* config_->minCorrectionInterval while BaseLocationCorrector::correctLocation
\* runs, per mode (applyXxxModeCorrection)
EffectiveInterval(mode, interval) ==
    CASE mode = "HIGH_ACCURACY" -> Max2(100, interval \div 2)
      [] mode = "LOW_POWER" -> Max2(1000, interval * 2)
      [] mode = "FAST_UPDATE" -> Max2(50, interval \div 4)
      [] OTHER -> interval

\* the configurations handed to initialize: intervals below, between and
\* above the modes' floors
Intervals == {0, 60, minCorrectionInterval, 2000}

CorrectionConfigs ==
    [enableAnomalyDetection : BOOLEAN, minCorrectionInterval : Intervals]

\* corrector.initialize(config): config_ = make_shared<CorrectionConfig>(config)
MmInitialize(config) ==
    /\ mmConfig' = config
    /\ mmBefore' = config
    /\ mmEffective' = 0
    /\ mmResult' = "none"
    /\ UNCHANGED <<currentMode, mmLastCorrectionTime, nonMmVars>>

\* corrector.setCorrectionMode(mode)
SetCorrectionMode(mode) ==
    /\ currentMode' = mode
    /\ UNCHANGED <<mmConfig, mmLastCorrectionTime, mmBefore, mmEffective,
                   mmResult, nonMmVars>>

\* corrector.correctLocation(location) at wall time now: the mode's
\* interval is written into config_, BaseLocationCorrector::correctLocation
\* runs, the saved interval is written back
MmCorrectLocation ==
    /\ mmConfig # NoConfig
    /\ LET originalInterval == mmConfig.minCorrectionInterval
           during == [mmConfig EXCEPT !.minCorrectionInterval =
                          EffectiveInterval(currentMode, originalInterval)]
           skipped == now - mmLastCorrectionTime < during.minCorrectionInterval
       IN  /\ mmBefore' = mmConfig
           /\ mmEffective' = during.minCorrectionInterval
           /\ mmResult' = IF skipped THEN "null" ELSE "corrected"
           /\ mmLastCorrectionTime' =
                  IF skipped THEN mmLastCorrectionTime ELSE now
           /\ mmConfig' = [during EXCEPT
                               !.minCorrectionInterval = originalInterval]
    /\ UNCHANGED <<currentMode, nonMmVars>>

MultiModeNext ==
    \/ \E config \in CorrectionConfigs : MmInitialize(config)
    \/ \E mode \in CorrectionModes : SetCorrectionMode(mode)
    \/ MmCorrectLocation
    \/ \E d \in TickSteps : Tick(d)

SpecMultiMode == PipelineInit /\ [][MultiModeNext]_vars

\* ------------------------------------------------------------------------
\* StorageManager (DataStorage.cpp): namedStorages as a function from the
\* registered names to storage objects (numbered 1..; 0 is nullptr)
\* ------------------------------------------------------------------------
StorageNames == {"file", "memory", "remote"}
Storages == 0..MaxStorages

\* the record of a call
Call(op, name, storage, result) ==
    [op |-> op, name |-> name, storage |-> storage, result |-> result]

\* the map with the entry of name erased
Erase(map, name) == [n \in DOMAIN map \ {name} |-> map[n]]

\* manager.registerStorage(name, storage)
RegisterStorage(name, storage) ==
    IF storage = 0 \/ name \in DOMAIN namedStorages
    THEN /\ smCall' = Call("register", name, storage, FALSE)
         /\ UNCHANGED <<namedStorages, defaultStorage, nonSmVars>>
    ELSE /\ namedStorages' =
                [n \in DOMAIN namedStorages \cup {name} |->
                    IF n = name THEN storage ELSE namedStorages[n]]
         /\ defaultStorage' =
                IF defaultStorage = 0 THEN storage ELSE defaultStorage
         /\ smCall' = Call("register", name, storage, TRUE)
         /\ UNCHANGED nonSmVars

\* manager.unregisterStorage(name): when the entry is the default storage,
\* defaultStorage becomes namedStorages.begin()->second, taken before the
\* entry is erased (begin() is the first entry in the container's order,
\* which the sources do not fix: any entry)
UnregisterStorage(name) ==
    IF name \notin DOMAIN namedStorages
    THEN /\ smCall' = Call("unregister", name, 0, FALSE)
         /\ UNCHANGED <<namedStorages, defaultStorage, nonSmVars>>
    ELSE /\ IF namedStorages[name] = defaultStorage
            THEN \E first \in DOMAIN namedStorages :
                     defaultStorage' = namedStorages[first]
            ELSE UNCHANGED defaultStorage
         /\ namedStorages' = Erase(namedStorages, name)
         /\ smCall' = Call("unregister", name, namedStorages[name], TRUE)
         /\ UNCHANGED nonSmVars

\* manager.setDefaultStorage(name)
SetDefaultStorage(name) ==
    IF name \notin DOMAIN namedStorages
    THEN /\ smCall' = Call("setDefault", name, 0, FALSE)
         /\ UNCHANGED <<namedStorages, defaultStorage, nonSmVars>>
    ELSE /\ defaultStorage' = namedStorages[name]
         /\ smCall' = Call("setDefault", name, namedStorages[name], TRUE)
         /\ UNCHANGED <<namedStorages, nonSmVars>>

StorageManagerNext ==
    \/ \E name \in StorageNames, storage \in Storages :
           RegisterStorage(name, storage)
    \/ \E name \in StorageNames : UnregisterStorage(name)
    \/ \E name \in StorageNames : SetDefaultStorage(name)

SpecStorageManager == PipelineInit /\ [][StorageManagerNext]_vars

\* ------------------------------------------------------------------------
\* StatisticalAnomalyDetector (AnomalyDetector.cpp)
\* ------------------------------------------------------------------------
\* a history entry: of the stored fix, the fields read back
StatEntry(f) ==
    [latitude |-> f.latitude, longitude |-> f.longitude,
     accuracy |-> f.accuracy, status |-> f.status, timestamp |-> f.timestamp]

\* StatisticalAnomalyDetector::trimHistory
StatTrimHistory(h) ==
    IF Len(h) > historySize
    THEN SubSeq(h, Len(h) - historySize + 1, Len(h))
    ELSE h

\* |x - mean| / stdDev > k for the values v, when stdDev > 0 (the z-score
\* stays 0.0 otherwise); mean = S / n and stdDev^2 = sumE2 / (n^2 (n - 1)),
\* so with D = |n x - S| the test is D^2 (n - 1) > k^2 sumE2
ZScoreExceeds(v, x, k) ==
    LET n == Len(v)
        S == SumSeq(v)
        sumE2 == SumSeq([i \in 1..n |-> (n * v[i] - S) * (n * v[i] - S)])
        D == Abs(n * x - S)
    IN  /\ n >= 2
        /\ sumE2 > 0
        /\ D * D * (n - 1) > k * k * sumE2

\* StatisticalAnomalyDetector::doDetectAnomaly: <<isAnomaly, history'>>
DoDetectAnomaly(location, context, h) ==
    LET combinedContext == context \o h
        n == Len(combinedContext)
    IN  IF n < detectorMinSampleSize
        THEN <<FALSE, StatTrimHistory(Append(h, StatEntry(location)))>>
        ELSE LET latitudes == [i \in 1..n |-> combinedContext[i].latitude]
                 longitudes == [i \in 1..n |-> combinedContext[i].longitude]
                 accuracies == [i \in 1..n |-> combinedContext[i].accuracy]
                 isLatAnomaly ==
                     ZScoreExceeds(latitudes, location.latitude,
                                   zScoreThreshold)
                 isLonAnomaly ==
                     ZScoreExceeds(longitudes, location.longitude,
                                   zScoreThreshold)
                 isAccuracyAnomaly ==
                     ZScoreExceeds(accuracies, location.accuracy,
                                   zScoreThreshold * 2)
                 isAnomaly ==
                     isLatAnomaly \/ isLonAnomaly \/ isAccuracyAnomaly
             IN  IF isAnomaly
                 THEN <<TRUE, h>>
                 ELSE <<FALSE, StatTrimHistory(Append(h, StatEntry(location)))>>

\* the largest r in 0..20 with r * r <= q (20 when q >= 400)
ISqrt20(q) ==
    CHOOSE r \in 0..20 : r * r <= q /\ (r = 20 \/ (r + 1) * (r + 1) > q)

\* floor(10 * z / d) up to 20, z the z-score of x against the values v
\* (0.0 unless stdDev > 0) and d > 0: z^2 = D^2 (n - 1) / sumE2
ZScoreTenthsOver(v, x, d) ==
    LET n == Len(v)
        S == SumSeq(v)
        sumE2 == SumSeq([i \in 1..n |-> (n * v[i] - S) * (n * v[i] - S)])
        D == Abs(n * x - S)
    IN  IF n < 2 \/ sumE2 = 0 THEN 0
        ELSE ISqrt20((100 * D * D * (n - 1)) \div (d * d * sumE2))

Max3(a, b, c) ==
    IF a >= b /\ a >= c THEN a ELSE IF b >= c THEN b ELSE c

\* result.confidence of doDetectAnomaly when the statistics are computed,
\* in tenths rounded down:
\* min(1.0, (max{zLat, zLon, zAccuracy / 2} - zScoreThreshold)
\*          / zScoreThreshold)
DoDetectConfidence(location, context, h) ==
    LET combinedContext == context \o h
        n == Len(combinedContext)
        latitudes == [i \in 1..n |-> combinedContext[i].latitude]
        longitudes == [i \in 1..n |-> combinedContext[i].longitude]
        accuracies == [i \in 1..n |-> combinedContext[i].accuracy]
        maxZOverThreshold ==
            Max3(ZScoreTenthsOver(latitudes, location.latitude,
                                  zScoreThreshold),
                 ZScoreTenthsOver(longitudes, location.longitude,
                                  zScoreThreshold),
                 ZScoreTenthsOver(accuracies, location.accuracy,
                                  zScoreThreshold * 2))
    IN  IF n < detectorMinSampleSize THEN 0
        ELSE IF maxZOverThreshold - 10 > 10 THEN 10
        ELSE maxZOverThreshold - 10

\* AnomalyDetector::detectAnomaly (the detector is enabled): a context
\* shorter than minSampleSize returns "no anomaly" without running the
\* algorithm
DetectAnomaly(location, context) ==
    /\ detections < MaxDetections
    /\ LET r == IF Len(context) < detectorMinSampleSize
                THEN <<FALSE, statHistory>>
                ELSE DoDetectAnomaly(location, context, statHistory)
       IN  /\ anomalyResult' = r[1]
           /\ statHistory' = r[2]
    /\ confidence' =
           IF Len(context) < detectorMinSampleSize THEN 0
           ELSE DoDetectConfidence(location, context, statHistory)
    /\ detections' = detections + 1
    /\ UNCHANGED nonAdVars

\* StatisticalAnomalyDetector::addLocationToHistory
AddLocationToHistory(location) ==
    /\ detections < MaxDetections
    /\ statHistory' = StatTrimHistory(Append(statHistory, StatEntry(location)))
    /\ detections' = detections + 1
    /\ UNCHANGED <<anomalyResult, confidence>>
    /\ UNCHANGED nonAdVars

\* StatisticalAnomalyDetector::clearHistory
ClearHistory ==
    /\ detections < MaxDetections
    /\ statHistory # <<>>
    /\ statHistory' = <<>>
    /\ detections' = detections + 1
    /\ UNCHANGED <<anomalyResult, confidence>>
    /\ UNCHANGED nonAdVars

\* statuses of the fixes a caller hands to the detector: as collected, or
\* already marked by the outlier stage
DetectorStatuses == {"VALID", "ANOMALY"}

\* ages of those fixes: fresh, or late (from a slower collector)
DetectorAges == {0, 200}

\* the fixes handed to the detector at wall time t
DetectorInputs(t) ==
    {[RawFix(lat, acc, 0, t - age, "GPS") EXCEPT !.status = st] :
        lat \in Latitudes, acc \in Accuracies, age \in DetectorAges,
        st \in DetectorStatuses}

\* the contexts a caller passes: none, or minSampleSize recent fixes at one
\* position
DetectorContexts(t) ==
    {<<>>} \cup
    {[i \in 1..detectorMinSampleSize |-> RawFix(lat, acc, 0, t, "GPS")] :
        lat \in Latitudes, acc \in Accuracies}

DetectorNext ==
    \/ \E f \in DetectorInputs(now), c \in DetectorContexts(now) :
           DetectAnomaly(f, c)
    \/ \E f \in DetectorInputs(now) : AddLocationToHistory(f)
    \/ ClearHistory

SpecDetector == PipelineInit /\ [][DetectorNext]_vars

\* ------------------------------------------------------------------------
\* ProcessorChain: the order of the stages (DataProcessor.cpp)
\* ------------------------------------------------------------------------
Priorities == 0..MaxPriority

\* the sequence q without its element at position i
RemoveAt(q, i) == SubSeq(q, 1, i - 1) \o SubSeq(q, i + 1, Len(q))

\* the arrangements of the elements of q
RECURSIVE Arrangements(_)
Arrangements(q) ==
    IF q = <<>> THEN {<<>>}
    ELSE UNION {{<<q[i]>> \o r : r \in Arrangements(RemoveAt(q, i))} :
                    i \in 1..Len(q)}

\* the stages of q stand in ascending priority under pri
Ascending(q, pri) ==
    \A i, j \in 1..Len(q) : i < j => pri[q[i]] <= pri[q[j]]

\* ProcessorChain::sortProcessorsByPriority: std::sort with the comparison
\* p1->getPriority() < p2->getPriority(); std::sort is not stable, so every
\* ascending arrangement is a possible outcome
SortProcessorsByPriority(q, pri) ==
    {r \in Arrangements(q) : Ascending(r, pri)}

\* ProcessorChain::addProcessor(p), p a stage object not yet in the chain
AddProcessor(p) ==
    /\ \A i \in 1..Len(processors) : processors[i] # p
    /\ processors' \in SortProcessorsByPriority(Append(processors, p), priority)
    /\ lastOp' = "addProcessor"
    /\ UNCHANGED priority
    /\ UNCHANGED nonPcVars

\* ProcessorChain::removeProcessor(name of p): erases the first stage of
\* that name, leaves the rest as it stands
RemoveProcessor(p) ==
    /\ processors' =
           IF \E i \in 1..Len(processors) : processors[i] = p
           THEN RemoveAt(processors,
                         CHOOSE i \in 1..Len(processors) : processors[i] = p)
           ELSE processors
    /\ lastOp' = "removeProcessor"
    /\ UNCHANGED priority
    /\ UNCHANGED nonPcVars

\* DataProcessor::setPriority(pri) on stage object p: the chain is not told
SetPriority(p, pri) ==
    /\ priority' = [priority EXCEPT ![p] = pri]
    /\ lastOp' = "setPriority"
    /\ UNCHANGED processors
    /\ UNCHANGED nonPcVars

\* the chains addProcessor can leave when the stages of q are added one
\* after the other to the chain c
RECURSIVE AddAll(_, _, _)
AddAll(c, q, pri) ==
    IF q = <<>> THEN {c}
    ELSE UNION {AddAll(r, Tail(q), pri) :
                    r \in SortProcessorsByPriority(Append(c, Head(q)), pri)}

\* BaseLocationService::initializeProcessorChain: four new stages (accuracy,
\* time, outlier, coordinates), each with the constructor's priority, added
\* in that order to the new chain
InitializeProcessorChain ==
    /\ lastOp = "none"
    /\ processors' \in AddAll(<<>>, <<1, 2, 3, 4>>, priority)
    /\ lastOp' = "initializeProcessorChain"
    /\ UNCHANGED priority
    /\ UNCHANGED nonPcVars

ProcessorChainNext ==
    \/ InitializeProcessorChain
    \/ \E p \in Stages : AddProcessor(p)
    \/ \E p \in Stages : RemoveProcessor(p)
    \/ \E p \in Stages, pri \in Priorities : SetPriority(p, pri)

SpecProcessorChain == PipelineInit /\ [][ProcessorChainNext]_vars

\* ------------------------------------------------------------------------
\* DataFusion (DataFusion.cpp); coordinates in microdegrees, a coordinate
\* of a fused location is the fraction latNum / den (lonNum / den)
\* ------------------------------------------------------------------------
FusionFix(lat, acc, ts, s, st) ==
    [latitude |-> lat, longitude |-> Longitude * 1000, accuracy |-> acc,
     timestamp |-> ts, src |-> s, status |-> st]

\* LocationInfo::isValid on coordinates in microdegrees
FusionIsValid(f) ==
    /\ f.status = "VALID"
    /\ f.latitude >= -90000000 /\ f.latitude <= 90000000
    /\ f.longitude >= -180000000 /\ f.longitude <= 180000000
    /\ f.accuracy >= 0
    /\ f.timestamp > 0

\* DataFusion::fuse: the locations it hands to doFuse
ValidLocations(locs) ==
    SelectSeq(locs, LAMBDA f : FusionIsValid(f) /\ f.status # "ANOMALY")

RECURSIVE ProdSet(_)
ProdSet(A) ==
    IF A = {} THEN 1
    ELSE LET a == CHOOSE x \in A : TRUE IN a * ProdSet(A \ {a})

\* the least common multiple of the positive accuracies of locs: the
\* factor that turns the inverses 1.0 / accuracy into whole numbers
AccuracyLcm(locs) ==
    LET A == {locs[i].accuracy : i \in 1..Len(locs)} \ {0}
    IN  CHOOSE m \in 1..ProdSet(A) :
            /\ \A a \in A : m % a = 0
            /\ \A k \in 1..(m - 1) : \E a \in A : k % a # 0

\* WeightedAverageFusion::calculateWeights: whole numbers in the
\* proportion of the weights; the code's weights are these over their sum
CalculateWeights(e, locs) ==
    LET n == Len(locs)
        L == AccuracyLcm(locs)
        totalCustomWeight ==
            SumSeq([i \in 1..n |-> e.customWeights[locs[i].src]])
    IN  CASE e.weightStrategy = "ACCURACY_BASED" ->
                 [i \in 1..n |-> IF locs[i].accuracy > 0
                                 THEN L \div locs[i].accuracy
                                 ELSE L]
          [] e.weightStrategy = "CUSTOM" ->
                 [i \in 1..n |-> IF totalCustomWeight > 0
                                 THEN e.customWeights[locs[i].src]
                                 ELSE 1]
          [] OTHER -> [i \in 1..n |-> 1]

\* a weighted average whose weights are the inverse accuracies themselves,
\* not divided by their total
WeightedAverageNotNormalised(e, locs, t) ==
    LET n == Len(locs)
        W == CalculateWeights(e, locs)
    IN  [latNum |-> SumSeq([i \in 1..n |-> locs[i].latitude * W[i]]),
         lonNum |-> SumSeq([i \in 1..n |-> locs[i].longitude * W[i]]),
         den |-> AccuracyLcm(locs),
         accNum |-> SumSeq([i \in 1..n |-> locs[i].accuracy]),
         accDen |-> n,
         timestamp |-> t, src |-> "", status |-> "VALID"]

\* WeightedAverageFusion::doFuse at wall time t
WeightedAverageDoFuse(e, locs, t) ==
    LET n == Len(locs)
        W == CalculateWeights(e, locs)
        den == SumSeq(W)
        L == AccuracyLcm(locs)
        \* weightedAccuracy * den * L
        weightedAccuracy ==
            SumSeq([i \in 1..n |-> IF locs[i].accuracy > 0
                                   THEN W[i] * (L \div locs[i].accuracy)
                                   ELSE 0])
    IN  [latNum |-> SumSeq([i \in 1..n |-> locs[i].latitude * W[i]]),
         lonNum |-> SumSeq([i \in 1..n |-> locs[i].longitude * W[i]]),
         den |-> den,
         accNum |-> IF weightedAccuracy > 0 THEN den * L
                    ELSE SumSeq([i \in 1..n |-> locs[i].accuracy]),
         accDen |-> IF weightedAccuracy > 0 THEN weightedAccuracy ELSE n,
         timestamp |-> t, src |-> "", status |-> "VALID"]

\* PriorityBasedFusion::PriorityBasedFusion: the default priorities
SourcePriority(s) ==
    CASE s = "GPS" -> 100
      [] s = "WIFI" -> 80
      [] OTHER -> 0

\* the comparison PriorityBasedFusion::doFuse sorts with
PriorityBefore(a, b) ==
    IF SourcePriority(a.src) # SourcePriority(b.src)
    THEN SourcePriority(a.src) > SourcePriority(b.src)
    ELSE a.accuracy < b.accuracy

\* the copy of a location as a fused location
AsFused(f) ==
    [latNum |-> f.latitude, lonNum |-> f.longitude, den |-> 1,
     accNum |-> f.accuracy, accDen |-> 1,
     timestamp |-> f.timestamp, src |-> f.src, status |-> f.status]

\* PriorityBasedFusion::doFuse: sortedLocations[0] after std::sort is a
\* location that none comes before; which one of several is not specified
PriorityDoFuse(locs) ==
    {AsFused(locs[i]) :
        i \in {k \in 1..Len(locs) :
                  \A j \in 1..Len(locs) : ~PriorityBefore(locs[j], locs[k])}}

\* FootprintCoherenceFusion::calculateFootprint: the radius
FootprintRadius(f) ==
    IF f.accuracy * 2 < maxFootprintRadius THEN f.accuracy * 2
    ELSE maxFootprintRadius

\* calculateFootprintOverlap of two footprints of radius 4 m whose centres
\* lie d microdegrees of latitude apart (0.1112 m each), in thousandths
OverlapAt(d) ==
    CASE d = 0 -> 1000
      [] d = 2 -> 932
      [] d = 9 -> 726
      [] d = 11 -> 675
      [] d = 20 -> 482

\* FootprintCoherenceFusion::calculateFootprintOverlap at the model's
\* positions (less than 4 m apart, accuracy 0 or 2): a footprint of
\* radius 0 overlaps nothing
CalculateFootprintOverlap(f1, f2) ==
    IF FootprintRadius(f1) = 0 \/ FootprintRadius(f2) = 0 THEN 0
    ELSE OverlapAt(Abs(f1.latitude - f2.latitude))

\* currentSet of the greedy loop for location i
CurrentSet(locs, i) ==
    <<i>> \o SelectSeq([j \in 1..Len(locs) |-> j],
                       LAMBDA j : /\ j # i
                                  /\ CalculateFootprintOverlap(locs[i], locs[j])
                                         >= coherenceThreshold)

\* currentScore of a set, as <<totalCoherence, count>> (0.0 is <<0, 1>>)
CurrentScore(locs, set) ==
    LET k == Len(set)
        pair(p) == <<((p - 1) \div k) + 1, ((p - 1) % k) + 1>>
        totalCoherence ==
            SumSeq([p \in 1..(k * k) |->
                        IF pair(p)[1] < pair(p)[2]
                        THEN CalculateFootprintOverlap(locs[set[pair(p)[1]]],
                                                       locs[set[pair(p)[2]]])
                        ELSE 0])
    IN  IF k > 1 THEN <<totalCoherence, (k * (k - 1)) \div 2>> ELSE <<0, 1>>

\* the greedy loop from location i on: selectedIndices when it ends
RECURSIVE Greedy(_, _, _, _, _)
Greedy(locs, i, selected, maxScore, minRequired) ==
    IF i > Len(locs) THEN selected
    ELSE LET currentSet == CurrentSet(locs, i)
             currentScore == CurrentScore(locs, currentSet)
         IN  IF /\ Len(currentSet) >= minRequired
                /\ currentScore[1] * maxScore[2] > maxScore[1] * currentScore[2]
             THEN Greedy(locs, i + 1, currentSet, currentScore, minRequired)
             ELSE Greedy(locs, i + 1, selected, maxScore, minRequired)

\* FootprintCoherenceFusion::doFuse: the indices it fuses
SelectIndices(locs, minRequired) ==
    LET selected == Greedy(locs, 1, <<>>, <<0, 1>>, minRequired)
    IN  IF Len(selected) < minRequired
        THEN selected \o [i \in 1..Len(locs) |-> i]
        ELSE selected

AccuracyBased ==
    [kind |-> "WEIGHTED_AVERAGE", weightStrategy |-> "ACCURACY_BASED",
     customWeights |-> [s \in Sources |-> 1],
     minRequiredSources |-> minRequiredSources]

\* doFuse of engine e on locs at wall time t: the possible
\* [fused, selected]; DataFusion::doFuse itself returns nullptr
DoFuse(e, locs, t) ==
    CASE e.kind = "WEIGHTED_AVERAGE" ->
             {[fused |-> WeightedAverageDoFuse(e, locs, t), selected |-> <<>>]}
      [] e.kind = "PRIORITY_BASED" ->
             {[fused |-> r, selected |-> <<>>] : r \in PriorityDoFuse(locs)}
      [] e.kind = "FOOTPRINT_COHERENCE" ->
             LET sel == SelectIndices(locs, e.minRequiredSources)
                 selectedLocations == [k \in 1..Len(sel) |-> locs[sel[k]]]
             IN  {[fused |-> WeightedAverageDoFuse(AccuracyBased,
                                                   selectedLocations, t),
                   selected |-> sel]}
      [] OTHER -> {[fused |-> NoFused, selected |-> <<>>]}

\* a new engine e, then e.fuse(locs) at wall time now
Fuse(e, locs) ==
    /\ engine = NoEngine
    /\ engine' = e
    /\ locations' = locs
    /\ IF \/ Len(locs) < e.minRequiredSources
          \/ Len(ValidLocations(locs)) < e.minRequiredSources
       THEN /\ fusedLocation' = NoFused
            /\ selectedIndices' = <<>>
       ELSE \E r \in DoFuse(e, ValidLocations(locs), now) :
                /\ fusedLocation' =
                       IF r.fused = NoFused THEN NoFused
                       ELSE [r.fused EXCEPT !.status = "NORMAL",
                                            !.src = "FUSED"]
                /\ selectedIndices' = r.selected
    /\ UNCHANGED nonFuVars

\* the engines: each fusion class, its strategies, custom weights per
\* source, and minRequiredSources from 1 to the constructor's value
CustomWeights == [Sources -> {0, 2}]

FusionEngines ==
    {[kind |-> k, weightStrategy |-> "", customWeights |-> [s \in Sources |-> 1],
      minRequiredSources |-> m] :
        k \in {"BASE", "PRIORITY_BASED", "FOOTPRINT_COHERENCE"},
        m \in 1..minRequiredSources}
    \cup
    {[kind |-> "WEIGHTED_AVERAGE", weightStrategy |-> ws,
      customWeights |-> [s \in Sources |-> 1], minRequiredSources |-> m] :
        ws \in {"EQUAL_WEIGHT", "ACCURACY_BASED"},
        m \in 1..minRequiredSources}
    \cup
    {[kind |-> "WEIGHTED_AVERAGE", weightStrategy |-> "CUSTOM",
      customWeights |-> cw, minRequiredSources |-> m] :
        cw \in CustomWeights, m \in 1..minRequiredSources}

\* latitudes of the locations handed to fuse, in microdegrees: 0, 9, 11
\* and 20 microdegrees north of 39.904
FusionLatitudes == {39904000, 39904009, 39904011, 39904020}
FusionAccuracies == {0, 2}

\* up to MaxSources locations: two positions, accuracy 0 or 2, captured
\* now or 200 ms ago, from either source; one of them may be marked ANOMALY
MixedFixes(t) ==
    {FusionFix(lat, acc, t - age, s, "VALID") :
        lat \in {39904000, 39904009}, acc \in FusionAccuracies,
        age \in {0, 200}, s \in Sources}
    \cup {FusionFix(39904009, 2, t, "GPS", "ANOMALY")}

\* four locations of accuracy 2 at any of the four positions
NearbyFixes(t) ==
    {FusionFix(lat, 2, t, "GPS", "VALID") : lat \in FusionLatitudes}

FusionInputs(t) ==
    UNION {[1..n -> MixedFixes(t)] : n \in 1..MaxSources}
    \cup [1..4 -> NearbyFixes(t)]

FusionNext ==
    /\ engine = NoEngine
    /\ \E e \in FusionEngines, locs \in FusionInputs(now) : Fuse(e, locs)

SpecFusion == PipelineInit /\ [][FusionNext]_vars

\* ------------------------------------------------------------------------
\* MemoryStorage (DataStorage.cpp): stored locations are numbered in the
\* order they are handed to the store
\* ------------------------------------------------------------------------
queryVars == <<fileLines, queryResult, queryErrors>>

fileVars == <<fileLocation, data, parsed, queryVars>>

\* the capacities a configuration or setStorageCapacity may ask for
\* (0: leave the capacity as it is)
Capacities == 0..MaxCapacity

\* MemoryStorage::initialize with config.capacity = capacity
StInitialize(capacity) ==
    /\ ~initialized
    /\ storageCapacity' = IF capacity > 0 THEN capacity ELSE storageCapacity
    /\ initialized' = TRUE
    /\ stOp' = "initialize"
    /\ UNCHANGED <<enabled, memLocations, stCalls, fileVars, nonStVars>>

\* MemoryStorage::close
StClose ==
    /\ initialized
    /\ memLocations' = <<>>
    /\ initialized' = FALSE
    /\ stOp' = "close"
    /\ UNCHANGED <<enabled, storageCapacity, stCalls, fileVars, nonStVars>>

\* DataStorage::setEnabled
SetEnabled(enable) ==
    /\ enabled' = enable
    /\ stOp' = "setEnabled"
    /\ UNCHANGED <<initialized, storageCapacity, memLocations, stCalls,
                   fileVars, nonStVars>>

\* DataStorage::setStorageCapacity
SetStorageCapacity(capacity) ==
    /\ capacity > 0
    /\ storageCapacity' = capacity
    /\ stOp' = "setStorageCapacity"
    /\ UNCHANGED <<initialized, enabled, memLocations, stCalls, fileVars,
                   nonStVars>>

\* the body of the loop of store and batchStore: pop_front at capacity,
\* then push_back
StoreOne(stored, location) ==
    (IF Len(stored) >= storageCapacity THEN Tail(stored) ELSE stored)
        \o <<location>>

RECURSIVE StoreAll(_, _)
StoreAll(stored, batch) ==
    IF batch = <<>> THEN stored
    ELSE StoreAll(StoreOne(stored, Head(batch)), Tail(batch))

\* MemoryStorage::store of the next location
Store ==
    /\ initialized /\ enabled
    /\ stCalls < MaxStores
    /\ memLocations' = StoreOne(memLocations, stCalls + 1)
    /\ stCalls' = stCalls + 1
    /\ stOp' = "store"
    /\ UNCHANGED <<initialized, enabled, storageCapacity, fileVars, nonStVars>>

\* MemoryStorage::batchStore of the next n locations
BatchStore(n) ==
    /\ initialized /\ enabled
    /\ stCalls + n <= MaxStores
    /\ memLocations' = StoreAll(memLocations, [k \in 1..n |-> stCalls + k])
    /\ stCalls' = stCalls + n
    /\ stOp' = "batchStore"
    /\ UNCHANGED <<initialized, enabled, storageCapacity, fileVars, nonStVars>>

\* MemoryStorage::clearAll
ClearAll ==
    /\ initialized /\ enabled
    /\ memLocations' = <<>>
    /\ stOp' = "clearAll"
    /\ UNCHANGED <<initialized, enabled, storageCapacity, stCalls, fileVars,
                   nonStVars>>

MemoryStorageNext ==
    \/ \E capacity \in Capacities : StInitialize(capacity)
    \/ StClose
    \/ \E enable \in BOOLEAN : SetEnabled(enable)
    \/ \E capacity \in Capacities : SetStorageCapacity(capacity)
    \/ Store
    \/ \E n \in 0..2 : BatchStore(n)
    \/ ClearAll

SpecMemoryStorage == PipelineInit /\ [][MemoryStorageNext]_vars

\* ------------------------------------------------------------------------
\* FileStorage::serializeLocation and deserializeLocation (DataStorage.cpp).
\* A string is a sequence of characters; a double is a whole number of
\* millionths (latitude 39.904009 is 39904009).
\* ------------------------------------------------------------------------
Micro == 1000000
\* the precision of a std::stringstream: significant digits of operator<<
streamPrecision == 6

DigitChars == <<"0", "1", "2", "3", "4", "5", "6", "7", "8", "9">>

RECURSIVE Pow10(_)
Pow10(n) == IF n = 0 THEN 1 ELSE 10 * Pow10(n - 1)

\* operator<< of a non-negative integer
RECURSIVE NatToChars(_)
NatToChars(n) ==
    IF n < 10 THEN <<DigitChars[n + 1]>>
    ELSE NatToChars(n \div 10) \o <<DigitChars[(n % 10) + 1]>>

\* operator<< of a long long or an int
IntToChars(n) == IF n < 0 THEN <<"-">> \o NatToChars(-n) ELSE NatToChars(n)

\* the last w digits of n
RECURSIVE PadChars(_, _)
PadChars(n, w) ==
    IF w = 0 THEN <<>>
    ELSE PadChars(n \div 10, w - 1) \o <<DigitChars[(n % 10) + 1]>>

RECURSIVE StripZeros(_)
StripZeros(s) ==
    IF s # <<>> /\ s[Len(s)] = "0" THEN StripZeros(SubSeq(s, 1, Len(s) - 1))
    ELSE s

\* the number of digits of the integer part of a millionths (0 below 1)
RECURSIVE IntDigits(_)
IntDigits(a) == IF a < Micro THEN 0 ELSE 1 + IntDigits(a \div 10)

\* operator<< of a double v (0, or 0.1 <= |v| < 1000000, in millionths):
\* streamPrecision significant digits, trailing zeros and a trailing point
\* dropped
DoubleToChars(v) ==
    LET a == Abs(v)
        decimals == streamPrecision - IntDigits(a)
        unit == Pow10(6 - decimals)
        rounded == ((a + unit \div 2) \div unit) * unit
        fraction == rounded % Micro
    IN  (IF v < 0 THEN <<"-">> ELSE <<>>)
        \o NatToChars(rounded \div Micro)
        \o (IF fraction = 0 THEN <<>>
            ELSE <<".">> \o StripZeros(PadChars(fraction, 6)))

\* ",[key:value]" for each extra, in the order the map iterates
RECURSIVE ExtrasToChars(_)
ExtrasToChars(extras) ==
    IF extras = <<>> THEN <<>>
    ELSE <<",", "[">> \o Head(extras)[1] \o <<":">> \o Head(extras)[2]
         \o <<"]">> \o ExtrasToChars(Tail(extras))

\* FileStorage::serializeLocation
SerializeLocation(location) ==
    IntToChars(location.timestamp) \o <<",">>
    \o DoubleToChars(location.latitude) \o <<",">>
    \o DoubleToChars(location.longitude) \o <<",">>
    \o DoubleToChars(location.altitude) \o <<",">>
    \o DoubleToChars(location.accuracy) \o <<",">>
    \o IntToChars(location.sourceType) \o <<",">>
    \o IntToChars(location.status)
    \o ExtrasToChars(location.extras)

\* std::string::find: the first position of character c in s, 0 if none
IndexOf(s, c) ==
    IF \E i \in 1..Len(s) : s[i] = c
    THEN CHOOSE i \in 1..Len(s) : s[i] = c /\ \A j \in 1..(i - 1) : s[j] # c
    ELSE 0

\* the tokens successive std::getline(ss, token, ',') calls return
RECURSIVE Tokens(_)
Tokens(s) ==
    IF s = <<>> THEN <<>>
    ELSE LET i == IndexOf(s, ",")
         IN  IF i = 0 THEN <<s>>
             ELSE <<SubSeq(s, 1, i - 1)>> \o Tokens(SubSeq(s, i + 1, Len(s)))

DigitValue(c) == CHOOSE d \in 0..9 : DigitChars[d + 1] = c

\* the longest prefix of s made of digits
RECURSIVE LeadingDigits(_)
LeadingDigits(s) ==
    IF s # <<>> /\ \E d \in 1..10 : DigitChars[d] = s[1]
    THEN <<s[1]>> \o LeadingDigits(Tail(s))
    ELSE <<>>

RECURSIVE ParseNat(_)
ParseNat(s) ==
    IF s = <<>> THEN 0
    ELSE 10 * ParseNat(SubSeq(s, 1, Len(s) - 1)) + DigitValue(s[Len(s)])

\* std::stoll and std::stoi of a token that starts with a number
Stoll(token) ==
    LET negative == token # <<>> /\ token[1] = "-"
        body == IF negative THEN Tail(token) ELSE token
        value == ParseNat(LeadingDigits(body))
    IN  IF negative THEN -value ELSE value

\* std::stod of a token that starts with a decimal number, in millionths
Stod(token) ==
    LET negative == token # <<>> /\ token[1] = "-"
        body == IF negative THEN Tail(token) ELSE token
        whole == LeadingDigits(body)
        rest == SubSeq(body, Len(whole) + 1, Len(body))
        fraction == IF rest # <<>> /\ rest[1] = "."
                    THEN LeadingDigits(Tail(rest)) ELSE <<>>
        value == ParseNat(whole) * Micro
                 + ParseNat(SubSeq(fraction \o <<"0", "0", "0", "0", "0", "0">>,
                                   1, 6))
    IN  IF negative THEN -value ELSE value

\* LocationInfo::setExtra on a map held as a set of <<key, value>>
SetExtra(extras, key, value) ==
    {p \in extras : p[1] # key} \cup {<<key, value>>}

\* the while loop of deserializeLocation over the tokens after the seventh
RECURSIVE ParseExtras(_, _)
ParseExtras(tokens, extras) ==
    IF tokens = <<>> THEN extras
    ELSE LET token == Head(tokens)
             kv == SubSeq(token, 2, Len(token) - 1)
             colonPos == IndexOf(kv, ":")
         IN  IF /\ Len(token) >= 3
                /\ token[1] = "["
                /\ token[Len(token)] = "]"
                /\ colonPos # 0
             THEN ParseExtras(Tail(tokens),
                              SetExtra(extras,
                                       SubSeq(kv, 1, colonPos - 1),
                                       SubSeq(kv, colonPos + 1, Len(kv))))
             ELSE ParseExtras(Tail(tokens), extras)

\* std::stoll and std::stoi convert the token (they throw
\* std::invalid_argument otherwise): digits after an optional sign
ConvertsInteger(token) ==
    LeadingDigits(IF token # <<>> /\ token[1] = "-" THEN Tail(token)
                  ELSE token) # <<>>

\* std::stod converts the token: after an optional sign, digits, or a point
\* and digits
ConvertsDouble(token) ==
    LET body == IF token # <<>> /\ token[1] = "-" THEN Tail(token) ELSE token
    IN  \/ LeadingDigits(body) # <<>>
        \/ body # <<>> /\ body[1] = "." /\ LeadingDigits(Tail(body)) # <<>>

\* an exception leaving deserializeLocation
Thrown == [src |-> "EXCEPTION"]

\* FileStorage::deserializeLocation: a field whose std::getline fails keeps
\* the value LocationInfo() gave it
DeserializeLocation(line) ==
    LET tokens == Tokens(line)
        n == Len(tokens)
    IN  IF \/ \E k \in {1, 6, 7} : k <= n /\ ~ConvertsInteger(tokens[k])
           \/ \E k \in 2..5 : k <= n /\ ~ConvertsDouble(tokens[k])
        THEN Thrown
        ELSE [timestamp |-> IF n >= 1 THEN Stoll(tokens[1]) ELSE 0,
              latitude |-> IF n >= 2 THEN Stod(tokens[2]) ELSE 0,
              longitude |-> IF n >= 3 THEN Stod(tokens[3]) ELSE 0,
              altitude |-> IF n >= 4 THEN Stod(tokens[4]) ELSE 0,
              accuracy |-> IF n >= 5 THEN Stod(tokens[5]) ELSE 0,
              sourceType |-> IF n >= 6 THEN Stoll(tokens[6]) ELSE "UNKNOWN",
              status |-> IF n >= 7 THEN Stoll(tokens[7]) ELSE "INVALID",
              extras |-> ParseExtras(SubSeq(tokens, 8, Len(tokens)), {})]

\* keys and values of extras: a plain one, and ones holding ',', ':' or ']'
Texts == {<<"a">>, <<"a", ",", "b">>, <<"a", ":", "b">>, <<"a", "]">>}

\* the extras of a location in the order the map iterates: up to n
\* <<key, value>> with different keys
RECURSIVE ExtrasUpTo(_)
ExtrasUpTo(n) ==
    IF n = 0 THEN {<<>>}
    ELSE ExtrasUpTo(n - 1)
         \cup UNION {{Append(e, <<k, v>>) : k \in {t \in Texts :
                                                   \A i \in 1..Len(e) :
                                                       e[i][1] # t},
                                           v \in Texts} :
                     e \in {x \in ExtrasUpTo(n - 1) : Len(x) = n - 1}}

\* the locations handed to serializeLocation
FileLocations ==
    [timestamp : {StartTime},
     latitude : {39904000, 39904009, -33868800},
     longitude : {116407000},
     altitude : {0, 50500000},
     accuracy : {5000000},
     sourceType : 0..1,
     status : 0..1,
     extras : ExtrasUpTo(MaxExtras)]

\* deserializeLocation(serializeLocation(location))
RoundTrip(location) ==
    /\ fileLocation' = location
    /\ data' = SerializeLocation(location)
    /\ parsed' = DeserializeLocation(SerializeLocation(location))
    /\ UNCHANGED <<initialized, enabled, storageCapacity, memLocations, stOp,
                   stCalls, queryVars, nonStVars>>

FileStorageNext ==
    /\ fileLocation = NoLine
    /\ \E location \in FileLocations : RoundTrip(location)

SpecFileStorage == PipelineInit /\ [][FileStorageNext]_vars

\* ------------------------------------------------------------------------
\* FileStorage::queryByTimeRange over one log file
\* ------------------------------------------------------------------------
RECURSIVE Join(_)
Join(fields) ==
    IF fields = <<>> THEN <<>>
    ELSE IF Len(fields) = 1 THEN fields[1]
    ELSE fields[1] \o <<",">> \o Join(Tail(fields))

\* the fields of the line 1000000,39.904,116.407,0,5,0,0
BaseFields ==
    <<IntToChars(StartTime), DoubleToChars(39904000),
      DoubleToChars(116407000), <<"0">>, <<"5">>, <<"0">>, <<"0">>>>

\* an empty field, a number with trailing garbage, no number
BadTokens == {<<>>, <<"5", "x">>, <<"x">>}

\* the fixed fields of a line: all seven, one of them bad, or only the
\* first k
FieldLists ==
    {BaseFields}
    \cup {[BaseFields EXCEPT ![k] = b] : k \in 1..7, b \in BadTokens}
    \cup {SubSeq(BaseFields, 1, k) : k \in 0..6}

\* what follows the fixed fields: nothing, an extra, an unknown token, a
\* malformed extra
ExtraSuffixes ==
    {<<>>,
     <<",", "[", "a", ":", "b", "]">>,
     <<",", "j", "u", "n", "k">>,
     <<",", "[", "a", "b">>}

QueryLines == {Join(f) \o e : f \in FieldLists, e \in ExtraSuffixes}

QueryFiles == UNION {[1..n -> QueryLines] : n \in 1..MaxLines}

\* the time ranges asked for
QueryRanges == {<<0, 2 * StartTime>>, <<StartTime, StartTime>>}

\* FileStorage::queryByTimeRange(startTime, endTime) when the directory
\* holds one log file with these lines
QueryByTimeRange(lines, startTime, endTime) ==
    /\ initialized /\ enabled
    /\ fileLines = <<>>
    /\ fileLines' = lines
    /\ queryErrors' =
           {i \in 1..Len(lines) : DeserializeLocation(lines[i]) = Thrown}
    /\ queryResult' =
           SelectSeq([i \in 1..Len(lines) |-> DeserializeLocation(lines[i])],
                     LAMBDA location :
                         /\ location # Thrown
                         /\ location.timestamp >= startTime
                         /\ location.timestamp <= endTime)
    /\ UNCHANGED <<initialized, enabled, storageCapacity, memLocations, stOp,
                   stCalls, fileLocation, data, parsed, nonStVars>>

FileQueryNext ==
    \/ \E capacity \in Capacities : StInitialize(capacity)
    \/ /\ fileLines = <<>>
       /\ \E lines \in QueryFiles, range \in QueryRanges :
              QueryByTimeRange(lines, range[1], range[2])

SpecFileQuery == PipelineInit /\ [][FileQueryNext]_vars

\* ------------------------------------------------------------------------
\* LocationInfo::isValid on its own (coordinates in thousandths of a degree)
\* ------------------------------------------------------------------------
LocationStatuses == {"VALID", "INVALID", "LOW_ACCURACY", "ANOMALY"}

\* the locations isValid is asked about: each field inside, on and outside
\* the limits isValid compares it with
ValidityInputs ==
    [status : LocationStatuses,
     latitude : {-90001, -90000, 39904, 90000, 90001},
     longitude : {-180001, -180000, 116407, 180000, 180001},
     accuracy : {-1, 0, 5},
     timestamp : {-1, 0, StartTime}]

\* location.isValid()
CallIsValid(location) ==
    /\ lmLocation = NoLine
    /\ lmLocation' = location
    /\ lmValid' = IsValid(location)
    /\ UNCHANGED <<lmCorrected, lmInfo, lmCopy, nonLmVars>>

ValidityNext ==
    /\ lmLocation = NoLine
    /\ \E location \in ValidityInputs : CallIsValid(location)

SpecValidity == PipelineInit /\ [][ValidityNext]_vars

\* ------------------------------------------------------------------------
\* CorrectedLocation to LocationInfo, and LocationInfo copies
\* (LocationModel.cpp; coordinates in thousandths of a degree)
\* ------------------------------------------------------------------------
\* LocationInfo(const LocationInfo& other): member by member
LocationInfoCopy(other) ==
    [latitude |-> other.latitude, longitude |-> other.longitude,
     altitude |-> other.altitude, accuracy |-> other.accuracy,
     speed |-> other.speed, direction |-> other.direction,
     timestamp |-> other.timestamp, dataSource |-> other.dataSource,
     status |-> other.status, extras |-> other.extras]

\* LocationInfo::operator=(other) on the object self
LocationInfoAssign(self, other) ==
    IF self # other THEN LocationInfoCopy(other) ELSE self

\* CorrectedLocation::getCorrectedLocationInfo
GetCorrectedLocationInfo(c) ==
    [LocationInfoCopy(c.originalLocation) EXCEPT
         !.latitude = c.correctedLatitude,
         !.longitude = c.correctedLongitude,
         !.altitude = c.correctedAltitude,
         !.accuracy = c.correctionAccuracy,
         !.timestamp = c.correctionTime]

\* the fixes a CorrectedLocation is made from
OriginalLocations ==
    [latitude : {39904}, longitude : {116407}, altitude : {0, 43},
     accuracy : {5}, speed : {0, 5}, direction : {0, 90},
     timestamp : {StartTime}, dataSource : {"GPS", "WIFI"},
     status : {"VALID"}, extras : {<<>>, <<<<"a", "b">>>>}]

\* the records converted: corrected position and correction time equal to
\* the fix's or different from it
CorrectedLocations ==
    [originalLocation : OriginalLocations,
     correctedLatitude : {39904, 39905},
     correctedLongitude : {116407},
     correctedAltitude : {0, 45},
     correctionAccuracy : {5, 2},
     correctionTime : {StartTime, StartTime + 1000}]

\* c.getCorrectedLocationInfo()
CallGetCorrectedLocationInfo(c) ==
    /\ lmCorrected = NoLine
    /\ lmCorrected' = c
    /\ lmInfo' = GetCorrectedLocationInfo(c)
    /\ UNCHANGED <<lmLocation, lmValid, lmCopy, nonLmVars>>

\* LocationInfo copy = info;
CopyConstruct ==
    /\ lmInfo # NoLine
    /\ lmCopy = NoLine
    /\ lmCopy' = LocationInfoCopy(lmInfo)
    /\ UNCHANGED <<lmLocation, lmValid, lmCorrected, lmInfo, nonLmVars>>

\* copy = c.originalLocation;
AssignOriginal ==
    /\ lmCopy # NoLine
    /\ lmCopy = lmInfo
    /\ lmCopy # lmCorrected.originalLocation
    /\ lmCopy' = LocationInfoAssign(lmCopy, lmCorrected.originalLocation)
    /\ UNCHANGED <<lmLocation, lmValid, lmCorrected, lmInfo, nonLmVars>>

ConversionNext ==
    \/ /\ lmCorrected = NoLine
       /\ \E c \in CorrectedLocations : CallGetCorrectedLocationInfo(c)
    \/ CopyConstruct
    \/ AssignOriginal

SpecConversion == PipelineInit /\ [][ConversionNext]_vars

\* ------------------------------------------------------------------------
\* MultiDetectorAnomalyDetector (AnomalyDetector.cpp). A sub-detector is
\* [enabled, weight, isAnomaly, confidence]: its settings and what its
\* detectAnomaly returns for the fix; confidences and thresholds in tenths.
\* ------------------------------------------------------------------------
\* detectorResults and weights: the enabled sub-detectors, in order
EnabledDetectors(detectors) == SelectSeq(detectors, LAMBDA d : d.enabled)

\* the sum of f(results[i]) over the results
SumOver(results, f(_)) == SumSeq([i \in 1..Len(results) |-> f(results[i])])

\* MultiDetectorAnomalyDetector::fuseByMajorityVote
FuseByMajorityVote(c, results) ==
    LET agreeing == SelectSeq(results, LAMBDA r : r.isAnomaly)
        anomalyCount == Len(agreeing)
        totalConfidence == SumOver(agreeing, LAMBDA r : r.confidence)
    IN  [isAnomaly |-> anomalyCount >= c.minRequiredDetectors,
         num |-> IF anomalyCount > 0 THEN totalConfidence ELSE 0,
         den |-> IF anomalyCount > 0 THEN anomalyCount ELSE 1]

\* fuseByWeightedAverage with the strict comparison confidence > threshold
FuseByWeightedAverageStrict(c, results) ==
    LET weightedSum == SumOver(results, LAMBDA r : r.confidence * r.weight)
        totalWeight == SumOver(results, LAMBDA r : r.weight)
    IN  IF totalWeight > 0
        THEN [isAnomaly |-> weightedSum > c.threshold * totalWeight,
              num |-> weightedSum, den |-> totalWeight]
        ELSE [isAnomaly |-> 0 > c.threshold, num |-> 0, den |-> 1]

\* MultiDetectorAnomalyDetector::fuseByWeightedAverage
FuseByWeightedAverage(c, results) ==
    LET weightedSum == SumOver(results, LAMBDA r : r.confidence * r.weight)
        totalWeight == SumOver(results, LAMBDA r : r.weight)
    IN  IF totalWeight > 0
        THEN [isAnomaly |-> weightedSum >= c.threshold * totalWeight,
              num |-> weightedSum, den |-> totalWeight]
        ELSE [isAnomaly |-> 0 >= c.threshold, num |-> 0, den |-> 1]

\* the loop of fuseByThreshold from fusedResult on
RECURSIVE ThresholdLoop(_, _, _)
ThresholdLoop(c, results, fusedResult) ==
    IF results = <<>> THEN fusedResult
    ELSE LET result == Head(results)
         IN  ThresholdLoop(c, Tail(results),
                 IF result.isAnomaly /\ result.confidence >= c.threshold
                 THEN [isAnomaly |-> TRUE,
                       num |-> IF result.confidence * fusedResult.den
                                     > fusedResult.num
                               THEN result.confidence ELSE fusedResult.num,
                       den |-> IF result.confidence * fusedResult.den
                                     > fusedResult.num
                               THEN 1 ELSE fusedResult.den]
                 ELSE fusedResult)

\* MultiDetectorAnomalyDetector::fuseByThreshold
FuseByThreshold(c, results) == ThresholdLoop(c, results, NotAnomaly)

\* MultiDetectorAnomalyDetector::doDetectAnomaly
CompositeDoDetectAnomaly(c) ==
    LET detectorResults == EnabledDetectors(c.detectors)
    IN  IF detectorResults = <<>> THEN NotAnomaly
        ELSE CASE c.strategy = "WEIGHTED_AVERAGE" ->
                      FuseByWeightedAverage(c, detectorResults)
               [] c.strategy = "THRESHOLD_BASED" ->
                      FuseByThreshold(c, detectorResults)
               [] OTHER -> FuseByMajorityVote(c, detectorResults)

\* AnomalyDetector::detectAnomaly on a new composite c
CompositeDetectAnomaly(c) ==
    /\ composite = NoComposite
    /\ composite' = c
    /\ compositeResult' =
           IF ~c.enabled \/ c.contextSize < detectorMinSampleSize
           THEN NotAnomaly
           ELSE CompositeDoDetectAnomaly(c)
    /\ UNCHANGED nonMdVars

\* the sub-detectors: enabled or not, weight 0 or 2, and a verdict:
\* not-anomaly, or anomaly with confidence 0.5 or 1
SubDetectors ==
    {[enabled |-> e, weight |-> w, isAnomaly |-> v[1], confidence |-> v[2]] :
        e \in BOOLEAN, w \in {0, 2},
        v \in {<<FALSE, 0>>, <<TRUE, 5>>, <<TRUE, 10>>}}

\* the composites: every rule; threshold as constructed (0) or set to 0.5;
\* minRequiredDetectors as constructed or set to 1; enabled with enough
\* context, enabled with too little, or disabled
Composites ==
    {[strategy |-> st, threshold |-> th, minRequiredDetectors |-> mr,
      enabled |-> gate[1], contextSize |-> gate[2], detectors |-> ds] :
        st \in {"MAJORITY_VOTE", "WEIGHTED_AVERAGE", "THRESHOLD_BASED"},
        th \in {defaultThreshold, 5},
        mr \in {minRequiredDetectors, 1},
        gate \in {<<TRUE, detectorMinSampleSize>>,
                  <<TRUE, detectorMinSampleSize - 1>>,
                  <<FALSE, detectorMinSampleSize>>},
        ds \in UNION {[1..n -> SubDetectors] : n \in 0..MaxDetectors}}

CompositeNext ==
    /\ composite = NoComposite
    /\ \E c \in Composites : CompositeDetectAnomaly(c)

SpecComposite == PipelineInit /\ [][CompositeNext]_vars

Next ==
    \/ \E cap \in 1..MaxQueueSize : Initialize(cap, batchProcessingSize)
    \/ Start
    \/ StopBegin
    \/ StopFinish
    \/ \E b \in BOOLEAN : SetLocationUpdateListener(b)
    \/ \E s \in Sources : CollectorCall(s)
    \/ \E s \in Sources : OnLocationDataReceived(s)
    \/ \E s \in Sources : HPOnLocationDataReceived(s)
    \/ ConsumerTop
    \/ ConsumerDequeue
    \/ ConsumerProcess
    \/ ConsumerNotify
    \/ ConsumerNotifyThrows
    \/ ConsumerRelease
    \/ \E w \in WorkerIds : WorkerPreprocess(w)
    \/ \E w \in WorkerIds : WorkerCorrect(w)
    \/ \E w \in WorkerIds : WorkerNotify(w)
    \/ \E w \in WorkerIds : WorkerNotifyThrows(w)

Spec == Init /\ [][Next]_vars

\* Scheduling: a thread that can take its next step eventually takes it (the
\* consumer, the batch threads, a collector inside onLocationDataReceived,
\* the controller inside stop()).  Whether a collector delivers another
\* fix, and whether start/stop/initialize are called, is left open.
Fairness ==
    /\ WF_vars(ConsumerTop)
    /\ WF_vars(ConsumerDequeue)
    /\ WF_vars(ConsumerProcess)
    /\ WF_vars(ConsumerNotify)
    /\ WF_vars(ConsumerRelease)
    /\ WF_vars(StopFinish)
    /\ \A s \in Sources : WF_vars(OnLocationDataReceived(s))
    /\ \A s \in Sources : WF_vars(HPOnLocationDataReceived(s))
    /\ \A w \in WorkerIds : WF_vars(WorkerPreprocess(w))
    /\ \A w \in WorkerIds : WF_vars(WorkerCorrect(w))
    /\ \A w \in WorkerIds : WF_vars(WorkerNotify(w))

FairSpec == Init /\ [][Next]_vars /\ Fairness

\* the session machine alone: the controller's calls (with every
\* configuration), the listener setter and the consumer loop on an empty queue
SessionInit == SvcInit /\ PlInit /\ CompInit

SessionNext ==
    \/ \E cap \in 1..MaxQueueSize, bs \in BatchSizes : Initialize(cap, bs)
    \/ Start
    \/ StopBegin
    \/ StopFinish
    \/ \E b \in BOOLEAN : SetLocationUpdateListener(b)
    \/ ConsumerTop
    \/ ConsumerDequeue
    \/ ConsumerRelease

SpecSession == SessionInit /\ [][SessionNext]_vars

\* ------------------------------------------------------------------------
\* stop() step by step: BaseLocationService::stop -> stopAllDataSources ->
\* DataSource::stop -> stopDataCollection -> join, beside the collection
\* threads (dataCollectionTask -> notifyLocationUpdate -> listener) and the
\* consumer thread
\* ------------------------------------------------------------------------
\* start(): no-op when running; else DataSource::start on every source
\* (enabled = true, dataCollecting = true, new thread), isRunning_ = true,
\* processingThread_ = thread(processingLoop)
StartCollecting ==
    /\ ctl = "idle"
    /\ IF isRunning
       THEN UNCHANGED <<isRunning, sourcesOn, cpc, dataCollecting, tpc>>
       ELSE /\ sourcesOn' = TRUE
            /\ isRunning' = TRUE
            /\ cpc' = "top"
            /\ dataCollecting' = [s \in Sources |-> TRUE]
            /\ tpc' = [s \in Sources |-> "loop"]
    /\ UNCHANGED <<serviceType, maxQueueSize, batchProcessingSize, ctl, queue,
                   queueMutex, locationMutex, listenerMutex, cur, ppc,
                   lastLocation, listenerSet, batchQueue, locationCache,
                   workers, nextId, processed, delivered, removed>>
    /\ UNCHANGED <<sourceMutex, dsJoining, dsStopped, nonSvcDsVars>>

\* stop(): processingThread_.join() returned; stopAllDataSources() entered
StopAllDataSources ==
    /\ ctl = "stopJoin"
    /\ cpc = "exited"
    /\ ctl' = "stopSources"
    /\ cpc' = "none"
    /\ UNCHANGED <<serviceType, maxQueueSize, batchProcessingSize, isRunning,
                   sourcesOn, queue, queueMutex, locationMutex, listenerMutex,
                   cur, ppc, lastLocation, listenerSet, batchQueue,
                   locationCache, workers, nextId, processed, delivered,
                   removed>>
    /\ UNCHANGED <<dsVars, nonSvcDsVars>>

\* DataSource::stop on the next source: lock_guard(mutex), enabled = false,
\* stopDataCollection: dataCollecting = false, then wait in join()
DataSourceStop(s) ==
    /\ ctl = "stopSources"
    /\ dsJoining = "NONE"
    /\ s \notin dsStopped
    /\ sourceMutex[s] = "none"
    /\ sourceMutex' = [sourceMutex EXCEPT ![s] = "stop"]
    /\ dataCollecting' = [dataCollecting EXCEPT ![s] = FALSE]
    /\ dsJoining' = s
    /\ UNCHANGED <<tpc, dsStopped, svcVars, nonSvcDsVars>>

\* the join returned: delete the thread; DataSource::stop returns and
\* releases DataSource::mutex
DataSourceJoined(s) ==
    /\ dsJoining = s
    /\ tpc[s] = "exited"
    /\ tpc' = [tpc EXCEPT ![s] = "none"]
    /\ sourceMutex' = [sourceMutex EXCEPT ![s] = "none"]
    /\ dsJoining' = "NONE"
    /\ dsStopped' = dsStopped \cup {s}
    /\ UNCHANGED <<dataCollecting, svcVars, nonSvcDsVars>>

\* stopAllDataSources returned: locationDataQueue_.clear() under
\* queueMutex_; stop() returns
StopClear ==
    /\ ctl = "stopSources"
    /\ dsStopped = Sources
    /\ queueMutex = NoThread
    /\ sourcesOn' = FALSE
    /\ queue' = <<>>
    /\ removed' = removed + Len(queue)
    /\ ctl' = "idle"
    /\ dsStopped' = {}
    /\ UNCHANGED <<serviceType, maxQueueSize, batchProcessingSize, isRunning,
                   queueMutex, locationMutex, listenerMutex, cpc, cur, ppc,
                   lastLocation, listenerSet, batchQueue, locationCache,
                   workers, nextId, processed, delivered>>
    /\ UNCHANGED <<dataCollecting, sourceMutex, tpc, dsJoining, nonSvcDsVars>>

\* dataCollectionTask: while (dataCollecting) { collect a valid fix and go
\* to notifyLocationUpdate }; the thread function returns when the flag is
\* false
CollectorLoop(s) ==
    /\ tpc[s] = "loop"
    /\ IF dataCollecting[s]
       THEN /\ nextId <= MaxPushes
            /\ tpc' = [tpc EXCEPT ![s] = "notify"]
       ELSE tpc' = [tpc EXCEPT ![s] = "exited"]
    /\ UNCHANGED <<dataCollecting, sourceMutex, dsJoining, dsStopped,
                   svcVars, nonSvcDsVars>>

\* notifyLocationUpdate: lock_guard(mutex) { copy the listeners, store
\* lastLocation }, then the listener is called with the lock released
NotifyLocationUpdate(s) ==
    /\ tpc[s] = "notify"
    /\ sourceMutex[s] = "none"
    /\ tpc' = [tpc EXCEPT ![s] = "listener"]
    /\ ppc' = [ppc EXCEPT ![s] = "calling"]
    /\ UNCHANGED <<serviceType, maxQueueSize, batchProcessingSize, isRunning,
                   ctl, sourcesOn, queue, queueMutex, locationMutex,
                   listenerMutex, cpc, cur, lastLocation, listenerSet,
                   batchQueue, locationCache, workers, nextId, processed,
                   delivered, removed>>
    /\ UNCHANGED <<dataCollecting, sourceMutex, dsJoining, dsStopped,
                   nonSvcDsVars>>

\* the listener returned; sleep_for(dataCollectionInterval); loop test
CollectorSleep(s) ==
    /\ tpc[s] = "listener"
    /\ ppc[s] = "idle"
    /\ tpc' = [tpc EXCEPT ![s] = "loop"]
    /\ UNCHANGED <<dataCollecting, sourceMutex, dsJoining, dsStopped,
                   svcVars, nonSvcDsVars>>

StopInit == Init /\ serviceType = "BASIC"

StopNext ==
    \/ StartCollecting
    \/ StopBegin
    \/ StopAllDataSources
    \/ \E s \in Sources : DataSourceStop(s)
    \/ \E s \in Sources : DataSourceJoined(s)
    \/ StopClear
    \/ \E s \in Sources : CollectorLoop(s)
    \/ \E s \in Sources : NotifyLocationUpdate(s)
    \/ \E s \in Sources : OnLocationDataReceived(s)
    \/ \E s \in Sources : CollectorSleep(s)
    \/ ConsumerTop
    \/ ConsumerDequeue
    \/ ConsumerProcess
    \/ ConsumerNotify
    \/ ConsumerRelease

\* Scheduling: every thread that can take its next step eventually takes
\* it.  Whether start() and stop() are called is left open.
StopFairness ==
    /\ WF_vars(StopAllDataSources)
    /\ WF_vars(StopClear)
    /\ WF_vars(ConsumerTop)
    /\ WF_vars(ConsumerDequeue)
    /\ WF_vars(ConsumerProcess)
    /\ WF_vars(ConsumerNotify)
    /\ WF_vars(ConsumerRelease)
    /\ \A s \in Sources :
          /\ WF_vars(DataSourceStop(s))
          /\ WF_vars(DataSourceJoined(s))
          /\ WF_vars(CollectorLoop(s))
          /\ WF_vars(NotifyLocationUpdate(s))
          /\ WF_vars(OnLocationDataReceived(s))
          /\ WF_vars(CollectorSleep(s))

SpecStop == StopInit /\ [][StopNext]_vars /\ StopFairness

\* ========================================================================
\* Claims about the service
\* ========================================================================
\* the service is stopped: no call of start()/stop() is in progress and
\* the running flag is false
Stopped == ctl = "idle" /\ ~isRunning

\* overflow evictions so far: every pushed fix is queued, was taken off by
\* the consumer or by stop(), or was evicted
Evicted == (nextId - 1) - removed - Len(queue)

\* C1: the ingest queue never holds more than maxQueueSize fixes, and it is
\* always the most recently pushed fixes in arrival order: a push onto a
\* full queue removed the oldest fix and kept the new one.
C1_QueueBoundedDropOldest ==
    /\ Len(queue) <= maxQueueSize
    /\ \A i \in 1..Len(queue) :
          queue[i].id = nextId - Len(queue) + i - 1

\* C1 witness: a full queue after at least one overflow eviction
C1_Witness ==
    /\ serviceType = "BASIC"
    /\ Len(queue) = maxQueueSize
    /\ maxQueueSize = MaxQueueSize
    /\ Evicted > 0

\* C3: after stop() has returned and until the next start(), the listener
\* is not invoked, for batches handed to a batch thread before stop() too.
C3_NoListenerCallAfterStop ==
    [][(Stopped /\ Stopped') => delivered' = delivered]_vars

\* C4: a collector calling onLocationDataReceived never waits for the
\* consumer's processing of a fix: the consumer holds queueMutex_ only for
\* the dequeue.
C4_PushNeverWaitsForProcessing ==
    \A s \in Sources :
        ~(/\ ppc[s] = "calling"
          /\ queueMutex = Consumer
          /\ cpc \in {"process", "notify"})

\* C5: while the listener is being invoked, the calling thread holds none of
\* queueMutex_, locationMutex_, listenerMutex_.
C5_ListenerCalledWithoutLocks ==
    /\ cpc = "notify" =>
          /\ queueMutex # Consumer
          /\ locationMutex # Consumer
          /\ listenerMutex # Consumer
    /\ \A w \in WorkerIds :
          workers[w].pc = "notify" =>
             /\ locationMutex # Worker(w)
             /\ listenerMutex # Worker(w)

\* C8: the consumer hands fixes to processLocationData in queue-insertion
\* order, one at a time and none twice: the processed ids increase strictly,
\* everything still queued arrived after everything processed, and the fix
\* in progress is the last one started.
C8_ConsumerFifoOrder ==
    /\ \A i, j \in 1..Len(processed) :
          i < j => processed[i] < processed[j]
    /\ \A i \in 1..Len(queue) : \A j \in 1..Len(processed) :
          processed[j] < queue[i].id
    /\ cpc \in {"process", "notify", "release"} =>
          /\ processed # <<>>
          /\ cur.id = processed[Len(processed)]

\* C8 witness: the consumer has processed two fixes with an evicted one
\* between them, and a third is queued behind
C8_Witness ==
    /\ Len(processed) >= 2
    /\ processed[2] > processed[1] + 1
    /\ Evicted > 0
    /\ queue # <<>>

\* C9: a burst of N pushes into a queue of capacity C with no pop leaves a
\* drop counter of N - C and the last C fixes queued in arrival order.
C9_OverflowCounted ==
    (/\ serviceType = "BASIC"
     /\ removed = 0
     /\ nextId - 1 > maxQueueSize)
    => /\ dropCounter = (nextId - 1) - maxQueueSize
       /\ Len(queue) = maxQueueSize
       /\ \A i \in 1..Len(queue) : queue[i].id = nextId - Len(queue) + i - 1

\* C10: once stop() has returned the consumer has exited, the flag is false,
\* the sources are stopped and no pushed fix is still buffered for a later
\* start(), in the ingest queue or in the batch buffer.
C10_StopLeavesNothingQueued ==
    Stopped =>
        /\ cpc = "none"
        /\ ~sourcesOn
        /\ queue = <<>>
        /\ batchQueue = <<>>
\* C13: emission times are non-decreasing in publication order.  The time
\* of an emission is the timestamp the corrector copies from the fix; fixes
\* are numbered in arrival order, taken here as their time order, so the
\* ids delivered to the listener never decrease.
C13_EmissionTimesMonotone ==
    \A i, j \in 1..Len(delivered) : i < j => delivered[i] <= delivered[j]

\* C14: getCurrentLocation of the high-performance service never returns a
\* superseded value: what it returns is at least as late as every location
\* cached so far.
C14_CacheNeverSuperseded ==
    \A i \in 1..Len(locationCache) : locationCache[i] <= GetCurrentLocation

\* C15: every fix deposited into the batch buffer is eventually handed to
\* processing, even if no further fix arrives: a non-empty batch buffer is
\* eventually flushed, as long as the service is neither stopped nor ended
\* by std::terminate.
C15_BatchEventuallyFlushed ==
    (batchQueue # <<>>)
        ~> (batchQueue = <<>> \/ ~isRunning \/ ctl = "terminated")

\* C17: a listener that throws does not break delivery: the consumer loop
\* keeps running and later fixes are still processed and delivered, so no
\* listener exception ever ends the service's threads.
C17_ListenerThrowKeepsDelivery ==
    ctl # "terminated"

\* C11: the session machine: a stopped service has no consumer thread, a
\* running one has exactly one, and no call on a running service (start,
\* or initialize, which is refused) changes its configuration.
C11_SessionMachine ==
    [][/\ (ctl' = "idle" /\ ~isRunning') => cpc' = "none"
       /\ (ctl' = "idle" /\ isRunning') => cpc' # "none"
       /\ (isRunning /\ isRunning' /\ ctl = "idle" /\ ctl' = "idle") =>
             /\ maxQueueSize' = maxQueueSize
             /\ batchProcessingSize' = batchProcessingSize]_vars

\* ========================================================================
\* Claims about the pipeline (SpecPipeline)
\* ========================================================================
\* C2: a fix that leaves the processor chain with status INVALID or ANOMALY
\* never becomes the current location and is never delivered: the location
\* last emitted never stems from such a fix.
C2_InvalidOrAnomalyNeverEmitted ==
    plLastLocation.originalStatus \notin {"INVALID", "ANOMALY"}

\* C6: two consecutive emissions of the corrector are at least
\* minCorrectionInterval apart in wall time, whatever the detected scene.
C6_DebounceEveryScene ==
    emitCount >= 2 => plLastLocation.time - prevEmitTime >= minCorrectionInterval

\* C7: an emission needs valid fixes from at least two distinct sources, and
\* two fixes from two sources at one instant produce exactly one emission.
C7_EmissionNeedsTwoSources ==
    /\ emitCount > 0 => \E s, u \in fedSources : s # u
    /\ (fed = 2 /\ ticks = 0 /\ fedSources = Sources) => emitCount = 1

\* ========================================================================
\* Claims about the processor chain (SpecChain)
\* ========================================================================
\* C12: the chain is idempotent: for every fix and every chain state,
\* processing the chain's result again returns the same fix and leaves the
\* outlier history as it was after the first run.
C12_ChainIdempotent ==
    \A f \in ChainInputs(now) :
        LET r1 == ChainProcess(f, now, history)
            r2 == ChainProcess(r1[1], now, r1[2])
        IN  r2 = r1

\* C16: a failure inside a processor stage drops the offending fix: the
\* chain returns no fix to forward to the corrector (the claim's failure
\* counter has no counterpart in the chain and is left out).
C16_StageFailureDropsFix ==
    failedStage # 0 => processedLocation = NoFix

\* C18: the outlier processor's history never contains a fix whose status is
\* ANOMALY: every entry is VALID, and a run of the chain that marks its fix
\* ANOMALY leaves the history unchanged.
C18_HistoryHasNoAnomaly ==
    /\ [](\A i \in 1..Len(history) : history[i].status = "VALID")
    /\ [][(fed' = fed + 1 /\ processedLocation'.status = "ANOMALY")
            => history' = history]_vars

\* C18 witness: the chain has just marked a fix ANOMALY against a history of
\* at least minSampleSize fixes
C18_Witness ==
    /\ fed > 0
    /\ processedLocation.status = "ANOMALY"
    /\ Len(history) >= minSampleSize


\* C19: a fix whose status is Anomaly is never appended to the
\* StatisticalAnomalyDetector history, neither by doDetectAnomaly (also
\* when the detector itself judges the fix normal) nor by
\* addLocationToHistory: no entry of the history has status ANOMALY.
C19_StatHistoryHasNoAnomaly ==
    \A i \in 1..Len(statHistory) : statHistory[i].status # "ANOMALY"

\* C20: the detectors' sliding windows are ordered by time: after any
\* sequence of fixes, also fixes arriving out of time order, the timestamps
\* in the statistical detector's history and in the outlier processor's
\* history are non-decreasing from the oldest to the newest entry.
C20_WindowsOrderedByTime ==
    /\ \A i, j \in 1..Len(statHistory) :
           i < j => statHistory[i].timestamp <= statHistory[j].timestamp
    /\ \A i, j \in 1..Len(history) :
           i < j => history[i].timestamp <= history[j].timestamp


\* C21: stages run in ascending priority order after any sequence of
\* addProcessor, removeProcessor and setPriority calls, and the chain the
\* service builds runs accuracy filter, staleness filter, outlier detector,
\* coordinate transform in that order (all four have the same priority).
C21_StagesInPriorityOrder ==
    /\ Ascending(processors, priority)
    /\ lastOp = "initializeProcessorChain" => processors = <<1, 2, 3, 4>>


\* C22: for every CorrectedLocation c a corrector produces,
\* c.correctionTime >= c.originalLocation.timestamp, also for fixes whose
\* capture time lies ahead of the wall clock.
C22_CorrectionTimeNotBeforeFix ==
    emitCount > 0 => plLastLocation.time >= plLastLocation.timestamp


\* C23: every AnomalyResult detectAnomaly returns has its confidence in
\* [0, 1] (0 to 10 tenths), whether or not isAnomaly is set.
C23_ConfidenceInUnitInterval ==
    confidence >= 0 /\ confidence <= 10


\* the locations the fused location was computed from: the valid ones; for
\* footprint-coherence fusion those it selected
Contributors ==
    LET valid == ValidLocations(locations)
    IN  IF engine.kind = "FOOTPRINT_COHERENCE"
        THEN [k \in 1..Len(selectedIndices) |-> valid[selectedIndices[k]]]
        ELSE valid

C25_FusedTimeIsLatest ==
    fusedLocation # NoFused =>
        /\ \E i \in 1..Len(Contributors) :
               Contributors[i].timestamp = fusedLocation.timestamp
        /\ \A i \in 1..Len(Contributors) :
               Contributors[i].timestamp <= fusedLocation.timestamp


\* the sets of indices of locs in which every two locations overlap by
\* coherenceThreshold or more
CoherentSubsets(locs) ==
    {S \in SUBSET (1..Len(locs)) :
        \A a \in S, b \in S :
            a # b => CalculateFootprintOverlap(locs[a], locs[b])
                         >= coherenceThreshold}

\* C26: unless the fallback to all fixes applies, the subset chosen by
\* footprint-coherence fusion is pairwise coherent (every two selected
\* fixes overlap by coherenceThreshold or more) and no pairwise coherent
\* subset is larger.
C26_SelectionLargestCoherentSubset ==
    LET locs == ValidLocations(locations)
        chosen == {selectedIndices[k] : k \in 1..Len(selectedIndices)}
        fallback == Len(Greedy(locs, 1, <<>>, <<0, 1>>,
                               engine.minRequiredSources))
                        < engine.minRequiredSources
    IN  (/\ engine.kind = "FOOTPRINT_COHERENCE"
         /\ fusedLocation # NoFused
         /\ ~fallback)
        => /\ chosen \in CoherentSubsets(locs)
           /\ \A S \in CoherentSubsets(locs) :
                  Cardinality(S) <= Cardinality(chosen)


\* C27: priority-based fusion returns the fix whose source has the highest
\* configured priority; among fixes of equal priority the one with the
\* smaller accuracy value; among those of equal priority and accuracy the
\* one with the more recent time.
C27_PriorityThenAccuracyThenTime ==
    LET locs == ValidLocations(locations)
        better(a, b) ==
            \/ SourcePriority(a.src) > SourcePriority(b.src)
            \/ /\ SourcePriority(a.src) = SourcePriority(b.src)
               /\ a.accuracy < b.accuracy
            \/ /\ SourcePriority(a.src) = SourcePriority(b.src)
               /\ a.accuracy = b.accuracy
               /\ a.timestamp > b.timestamp
    IN  (engine.kind = "PRIORITY_BASED" /\ fusedLocation # NoFused)
        => \E i \in 1..Len(locs) :
               /\ fusedLocation.latNum = locs[i].latitude * fusedLocation.den
               /\ fusedLocation.lonNum = locs[i].longitude * fusedLocation.den
               /\ fusedLocation.accNum = locs[i].accuracy * fusedLocation.accDen
               /\ fusedLocation.timestamp = locs[i].timestamp
               /\ \A j \in 1..Len(locs) : ~better(locs[j], locs[i])


\* C28: fusion of a single valid fix by a default-constructed engine
\* (minRequiredSources as the constructor sets it) returns that fix with
\* unchanged coordinates, accuracy and time, rather than no result.
C28_SingleFixReturnedUnchanged ==
    LET locs == ValidLocations(locations)
    IN  (/\ engine # NoEngine
         /\ engine.minRequiredSources = minRequiredSources
         /\ Len(locs) = 1)
        => /\ fusedLocation # NoFused
           /\ fusedLocation.latNum = locs[1].latitude * fusedLocation.den
           /\ fusedLocation.lonNum = locs[1].longitude * fusedLocation.den
           /\ fusedLocation.accNum = locs[1].accuracy * fusedLocation.accDen
           /\ fusedLocation.timestamp = locs[1].timestamp


\* C29: the in-memory store is bounded with drop-oldest: after any sequence
\* of store, batchStore, setStorageCapacity and clearAll on an initialized
\* store the stored count is at most the current storageCapacity, and a
\* store at capacity removes exactly the oldest entry and appends the new
\* one.
C29_MemoryStoreBounded ==
    /\ [](initialized => Len(memLocations) <= storageCapacity)
    /\ [][(/\ stOp' = "store"
           /\ stCalls' = stCalls + 1
           /\ Len(memLocations) = storageCapacity)
          => memLocations' = Tail(memLocations) \o <<stCalls'>>]_stVars


\* C30: file-store round trip: deserializeLocation(serializeLocation(f))
\* has the same time, latitude, longitude, altitude, accuracy, source kind
\* and status as f and exactly the same set of (key, value) extras,
\* including extras whose key or value contains ',', ':' or ']'.
C30_FileRoundTrip ==
    fileLocation # NoLine =>
        /\ parsed.timestamp = fileLocation.timestamp
        /\ parsed.latitude = fileLocation.latitude
        /\ parsed.longitude = fileLocation.longitude
        /\ parsed.altitude = fileLocation.altitude
        /\ parsed.accuracy = fileLocation.accuracy
        /\ parsed.sourceType = fileLocation.sourceType
        /\ parsed.status = fileLocation.status
        /\ parsed.extras = {fileLocation.extras[i] :
                                i \in 1..Len(fileLocation.extras)}


\* a token that is a whole number and nothing else
IsInteger(token) ==
    LET body == IF token # <<>> /\ token[1] = "-" THEN Tail(token) ELSE token
    IN  body # <<>> /\ LeadingDigits(body) = body

\* a token that is a decimal number and nothing else
IsDecimal(token) ==
    LET body == IF token # <<>> /\ token[1] = "-" THEN Tail(token) ELSE token
        whole == LeadingDigits(body)
        rest == SubSeq(body, Len(whole) + 1, Len(body))
    IN  /\ whole # <<>>
        /\ \/ rest = <<>>
           \/ /\ Len(rest) >= 2
              /\ rest[1] = "."
              /\ LeadingDigits(Tail(rest)) = Tail(rest)

\* a line whose seven fixed fields are all present and well-formed
WellFormedFixed(line) ==
    LET tokens == Tokens(line)
    IN  /\ Len(tokens) >= 7
        /\ \A k \in {1, 6, 7} : IsInteger(tokens[k])
        /\ \A k \in 2..5 : IsDecimal(tokens[k])

\* C31: the file-store parser rejects every line whose seven fixed fields
\* are not all present and well-formed (fewer than seven fields, an empty
\* field, a numeric field with trailing garbage: reported as an error and
\* skipped by queries), and accepts a line with well-formed fixed fields
\* followed by unknown or malformed extras.
C31_MalformedLinesRejected ==
    \A i \in 1..Len(fileLines) :
        (i \in queryErrors) <=> ~WellFormedFixed(fileLines[i])


\* C32: LocationInfo::isValid() is true exactly when status = Valid,
\* -90 <= latitude <= 90, -180 <= longitude <= 180, accuracy > 0 and
\* time > 0; in particular a fix with accuracy 0 is not valid.
C32_IsValidExactly ==
    lmLocation # NoLine =>
        (lmValid <=> /\ lmLocation.status = "VALID"
                     /\ lmLocation.latitude >= -90000
                     /\ lmLocation.latitude <= 90000
                     /\ lmLocation.longitude >= -180000
                     /\ lmLocation.longitude <= 180000
                     /\ lmLocation.accuracy > 0
                     /\ lmLocation.timestamp > 0)


\* the weight-normalised sum of the enabled sub-detectors' confidences is
\* the confidence of result r (0 when the total weight is 0), and r is an
\* anomaly exactly when that confidence is >= the composite's threshold
WeightedAverageOfEnabled(c, r) ==
    LET results == EnabledDetectors(c.detectors)
        weightedSum == SumOver(results, LAMBDA d : d.confidence * d.weight)
        totalWeight == SumOver(results, LAMBDA d : d.weight)
    IN  /\ IF totalWeight = 0 THEN r.num = 0
           ELSE r.num * totalWeight = weightedSum * r.den
        /\ r.isAnomaly <=> (r.num >= c.threshold * r.den)

C39_NoAnomalyFromNone ==
    (/\ composite # NoComposite
     /\ composite.threshold = defaultThreshold
     /\ composite.minRequiredDetectors = minRequiredDetectors
     /\ \A i \in 1..Len(composite.detectors) :
            composite.detectors[i].enabled
                => ~composite.detectors[i].isAnomaly)
        => ~compositeResult.isAnomaly


\* C34: the scene is re-evaluated at most once per sceneCheckInterval of
\* wall time: a detectScene call made less than sceneCheckInterval after the
\* previous evaluation changes neither the stored scene nor the last-check
\* time; the last-check time moves only when sceneCheckInterval has passed;
\* and when the fix gives no usable speed the prior scene is retained.
C34_SceneCheckedOncePerInterval ==
    [][fed' = fed + 1 =>
          /\ now - lastSceneCheckTime < sceneCheckInterval
                 => /\ currentScene' = currentScene
                    /\ lastSceneCheckTime' = lastSceneCheckTime
          /\ lastSceneCheckTime' # lastSceneCheckTime
                 => /\ now - lastSceneCheckTime >= sceneCheckInterval
                    /\ lastSceneCheckTime' = now
          /\ processedLocation'.speed < 0 => currentScene' = currentScene]_vars

\* C34 witness: the scene was evaluated as OUTDOOR at the start; a Wi-Fi fix
\* at rest, which an evaluation would classify INDOOR, was then corrected
\* inside the interval and the stored scene and check time stayed
C34_Witness ==
    /\ fed >= 2
    /\ lastSceneCheckTime = StartTime
    /\ now - lastSceneCheckTime < sceneCheckInterval
    /\ currentScene = "OUTDOOR"
    /\ processedLocation.src = "WIFI"
    /\ processedLocation.speed = 0


\* C35: converting a CorrectedLocation to a LocationInfo yields the
\* record's corrected latitude, longitude, altitude and accuracy, its speed,
\* direction and source kind, and the record's timestamp, not its
\* correction time; copy construction and assignment of a LocationInfo
\* preserve every field.
C35_ConversionKeepsTimestamp ==
    /\ lmInfo # NoLine =>
           /\ lmInfo.latitude = lmCorrected.correctedLatitude
           /\ lmInfo.longitude = lmCorrected.correctedLongitude
           /\ lmInfo.altitude = lmCorrected.correctedAltitude
           /\ lmInfo.accuracy = lmCorrected.correctionAccuracy
           /\ lmInfo.speed = lmCorrected.originalLocation.speed
           /\ lmInfo.direction = lmCorrected.originalLocation.direction
           /\ lmInfo.dataSource = lmCorrected.originalLocation.dataSource
           /\ lmInfo.timestamp = lmCorrected.originalLocation.timestamp
    /\ lmCopy # NoLine => lmCopy \in {lmInfo, lmCorrected.originalLocation}


\* C36: stop() always returns: from every state of a running service, with
\* collection threads possibly inside notifyLocationUpdate and the consumer
\* possibly inside a listener callback, the chain stop ->
\* stopAllDataSources -> DataSource::stop -> join eventually completes.
C36_StopAlwaysReturns ==
    (ctl \in {"stopJoin", "stopSources"}) ~> (ctl = "idle")


\* C37: a coordinate outside the transform's region of validity passes
\* through the coordinate-transform stage unchanged: the output fix equals
\* the input fix in every field, including its extras; and when source and
\* target systems match the stage is the identity.
C37_OutOfRegionUnchanged ==
    (/\ ccInput # NoLine
     /\ \/ ~IsInsideChina(ccInput.latitude, ccInput.longitude)
        \/ converter.sourceSystem = converter.targetSystem)
        => ccOutput = ccInput


\* C38: the correction mode is a throttle over the interval only: for every
\* mode correctLocation leaves config.minCorrectionInterval and every other
\* configuration field as they were before the call, and the interval in
\* force during the call is ordered FAST_UPDATE <= HIGH_ACCURACY <= NORMAL
\* <= LOW_POWER for every configured interval.
C38_ModeThrottlesIntervalOnly ==
    mmResult # "none" =>
        /\ mmConfig = mmBefore
        /\ LET interval == mmConfig.minCorrectionInterval
           IN  /\ EffectiveInterval("FAST_UPDATE", interval)
                      <= EffectiveInterval("HIGH_ACCURACY", interval)
               /\ EffectiveInterval("HIGH_ACCURACY", interval)
                      <= EffectiveInterval("NORMAL", interval)
               /\ EffectiveInterval("NORMAL", interval)
                      <= EffectiveInterval("LOW_POWER", interval)


\* the storages currently registered with the StorageManager
RegisteredStorages == {namedStorages[n] : n \in DOMAIN namedStorages}

\* C40: after any sequence of registerStorage, unregisterStorage and
\* setDefaultStorage the default storage is null or one of the currently
\* registered storages; after unregistering the default storage the default
\* is not the storage just removed; registering a name that already exists
\* returns false and changes nothing.
C40_DefaultIsRegisteredOrNull ==
    /\ defaultStorage = 0 \/ defaultStorage \in RegisteredStorages
    /\ (/\ smCall.op = "unregister" /\ smCall.result
        /\ smCall.storage \notin RegisteredStorages)
           => defaultStorage # smCall.storage

====
